---- MODULE Spec2Model ----
(***************************************************************************)
(* A model of generate_ics.py, the A-share market calendar generator.      *)
(*                                                                         *)
(* Text.  A Python str is modelled as a sequence of characters, and each   *)
(* character is written as one ASCII token: an ASCII character is itself,  *)
(* a CJK character is written by its pinyin name ("jie" "jin" "shi" "zhi"  *)
(* is the four-character label for "unlock market value"), and other       *)
(* non-ASCII characters by their code point ("U+FF08" is the full-width    *)
(* opening parenthesis, "U+2026" the horizontal ellipsis).                 *)
(*                                                                         *)
(* Optional values.  Python's None is the empty tuple and a present value  *)
(* x is the one-element tuple <<x>>.                                       *)
(***************************************************************************)
EXTENDS Integers, Sequences, FiniteSets, TLC

VARIABLES
    pk_pc,      \* _pick_col: "call" before the call, "done" after it
    pk_cols,    \* _pick_col: list(df.columns)
    pk_cands,   \* _pick_col: the candidates argument
    pk_out,     \* _pick_col: the returned label, or None
    ct_pc,      \* one category function: "call" before the call, "done" after
    ct_cat,     \* the category function under call
    ct_today,   \* the day of the call
    ct_seed,    \* the str-hash secret of the process (drawn when a hash is taken)
    ct_env,     \* what the function met: the upstream data, the failures
    ct_res,     \* its outcome: the calendars, whether it raised
    run_pc,     \* __main__: the category about to be processed, "write_all",
                \* "done", or "failed" once an exception left the program
    run_today,  \* __main__: the day of the run
    run_seed,   \* __main__: the str-hash secret of the process
    run_cal_all,    \* __main__: cal_all, the combined calendar
    run_files,  \* __main__: the files written under OUT_DIR, by name
    run_trace,  \* history: the categories whose function was called, in order
    run_cals,   \* history: the own calendars of the categories that returned
    run_raised, \* history: the calls that raised ("all": write of 00_all.ics)
    id_pc,      \* two invocations: "upstream", "run", "done"
    id_cat,     \* two invocations: the category looked at
    id_today,   \* two invocations: the day both run on
    id_env,     \* two invocations: the upstream data both meet
    id_seeds,   \* two invocations: the str-hash secret of each process so far
    id_uids     \* two invocations: the uids each process gave its events

varsPick == <<pk_pc, pk_cols, pk_cands, pk_out>>
varsCat == <<ct_pc, ct_cat, ct_today, ct_seed, ct_env, ct_res>>
varsRun == <<run_pc, run_today, run_seed, run_cal_all, run_files, run_trace, run_cals,
             run_raised>>
varsIds == <<id_pc, id_cat, id_today, id_env, id_seeds, id_uids>>

vars == <<varsPick, varsCat, varsRun, varsIds>>

----------------------------------------------------------------------------
(* Generic helpers                                                         *)

None == <<>>
Some(x) == <<x>>

Range(s) == {s[i] : i \in 1..Len(s)}

SeqsUpTo(S, n) == UNION {[1..k -> S] : k \in 0..n}

----------------------------------------------------------------------------
(* Bounds of the model                                                     *)

MaxCols == 2    \* most columns of a dataset handed to _pick_col
MaxCands == 2   \* most candidates handed to _pick_col
MaxRows == 2    \* most rows of an upstream dataset
MaxGridRows == 2    \* most rows below the header of the grid table

----------------------------------------------------------------------------
(* Characters and labels                                                   *)

\* The characters Python's \s matches among those the model uses
\* (U+3000 is the ideographic space).
WhitespaceChars == {" ", "\t", "U+3000"}

\* The character class of norm's regular expression: [\s\(\)U+FF08U+FF09_\-]
NormStripChars == WhitespaceChars \cup {"(", ")", "U+FF08", "U+FF09", "_", "-"}

\* The column labels the program looks for, and variants of them
L ==
    [MV |-> <<"jie", "jin", "shi", "zhi">>,
     MV_SPACED |-> <<"jie", "jin", " ", "shi", "zhi">>,
     MV_YI |-> <<"jie", "jin", "shi", "zhi", "(", "yi", "yuan", ")">>,
     MV_YI_FULLWIDTH |-> <<"jie", "jin", "shi", "zhi", "U+FF08", "yi", "yuan", "U+FF09">>,
     SHIZHI |-> <<"shi", "zhi">>,
     date |-> <<"d", "a", "t", "e">>,
     Date |-> <<"D", "a", "t", "e">>,
     JieJinRiQi |-> <<"jie", "jin", "ri", "qi">>,
     RiQi |-> <<"ri", "qi">>,
     GuPiaoDaiMa |-> <<"gu", "piao", "dai", "ma">>,
     DaiMa |-> <<"dai", "ma">>,
     GuPiaoJianCheng |-> <<"gu", "piao", "jian", "cheng">>,
     MingCheng |-> <<"ming", "cheng">>,
     JieJinShuLiang |-> <<"jie", "jin", "shu", "liang">>,
     JieJinGuShu |-> <<"jie", "jin", "gu", "shu">>,
     ShuLiang |-> <<"shu", "liang">>,
     JieJinShuLiangWanGu |-> <<"jie", "jin", "shu", "liang", "(", "wan", "gu", ")">>,
     ShenGouDaiMa |-> <<"shen", "gou", "dai", "ma">>,
     ShenGouRiQi |-> <<"shen", "gou", "ri", "qi">>,
     ZhongQianJiaoKuanRiQi |-> <<"zhong", "qian", "jiao", "kuan", "ri", "qi">>,
     WangShangShenGouJiaoKuanRi |-> <<"wang", "shang", "shen", "gou", "jiao", "kuan", "ri">>,
     ShangShiRiQi |-> <<"shang", "shi", "ri", "qi">>,
     ShangShiRi |-> <<"shang", "shi", "ri">>,
     ShouCiYuYue |-> <<"shou", "ci", "yu", "yue">>,
     ShouCiYuYuePiLu |-> <<"shou", "ci", "yu", "yue", "pi", "lu">>,
     ShouCiYuYueShiJian |-> <<"shou", "ci", "yu", "yue", "shi2", "jian">>,
     ShiJiPiLu |-> <<"shi2", "ji", "pi", "lu">>,
     ShiJiPiLuShiJian |-> <<"shi2", "ji", "pi", "lu", "shi2", "jian">>,
     BaoGaoQi |-> <<"bao", "gao", "qi">>,
     BaoGaoQiBie |-> <<"bao", "gao", "qi", "bie">>,
     BaoGaoQiLeiXing |-> <<"bao", "gao", "qi", "lei", "xing">>,
     ChuQuanChuXiRi |-> <<"chu", "quan", "chu", "xi", "ri">>,
     ChuXiRi |-> <<"chu", "xi", "ri">>,
     QuanYiDengJiRi |-> <<"quan", "yi4", "deng", "ji", "ri">>,
     FenHongFangAn |-> <<"fen", "hong", "fang", "an">>,
     FangAn |-> <<"fang", "an">>,
     SongZhuanPai |-> <<"song", "zhuan", "pai">>,
     PaiXiFangAn |-> <<"pai", "xi", "fang", "an">>,
     ShiJian |-> <<"shi2", "jian">>,
     datetime |-> <<"d", "a", "t", "e", "t", "i", "m", "e">>,
     GuoJia |-> <<"guo", "jia">>,
     country |-> <<"c", "o", "u", "n", "t", "r", "y">>,
     ShiJian4 |-> <<"shi4", "jian4">>,
     event |-> <<"e", "v", "e", "n", "t">>,
     ZhiBiao |-> <<"zhi", "biao">>,
     ZhongYaoXing |-> <<"zhong", "yao", "xing">>,
     importance |-> <<"i", "m", "p", "o", "r", "t", "a", "n", "c", "e">>,
     YuQi |-> <<"yu", "qi">>,
     forecast |-> <<"f", "o", "r", "e", "c", "a", "s", "t">>,
     QianZhi |-> <<"qian", "zhi">>,
     previous |-> <<"p", "r", "e", "v", "i", "o", "u", "s">>]

\* The labels columns and candidates are drawn from.
Labels == {L.MV, L.MV_SPACED, L.MV_YI, L.MV_YI_FULLWIDTH, L.SHIZHI, L.date, L.Date}

\* The market-value candidates of gen_unlock_calendar.
UnlockMvCandidates == <<L.MV, L.SHIZHI, L.MV_YI>>

----------------------------------------------------------------------------
(* _pick_col                                                               *)

norm_KeepsFullWidthParens(s) ==
    SelectSeq(s, LAMBDA ch : ch \notin (NormStripChars \ {"U+FF08", "U+FF09"}))

\* norm: re.sub(r"[\s\(\)...]", "", str(s))
norm(s) == SelectSeq(s, LAMBDA ch : ch \notin NormStripChars)

\* ncols = {norm(c): c for c in cols}: a later column overwrites an earlier
\* one with the same normalized form.
ncols(cols) ==
    [n \in {norm(cols[i]) : i \in 1..Len(cols)} |->
        cols[CHOOSE i \in 1..Len(cols) :
                /\ norm(cols[i]) = n
                /\ \A j \in 1..Len(cols) : norm(cols[j]) = n => j <= i]]

RECURSIVE ExactLoop_FirstLabel(_, _)
ExactLoop_FirstLabel(cols, candidates) ==
    IF cols = <<>> THEN None
    ELSE IF Head(cols) \in Range(candidates) THEN Some(Head(cols))
    ELSE ExactLoop_FirstLabel(Tail(cols), candidates)

\* for c in candidates: if c in cols: return c
RECURSIVE ExactLoop(_, _)
ExactLoop(cols, candidates) ==
    IF candidates = <<>> THEN None
    ELSE IF Head(candidates) \in Range(cols) THEN Some(Head(candidates))
    ELSE ExactLoop(cols, Tail(candidates))

NormHit_ReturnsCandidate(cols, c) == c

\* return ncols[nc], for a candidate c whose nc is a key of ncols
NormHit(cols, c) == ncols(cols)[norm(c)]

\* for c in candidates: nc = norm(c); if nc in ncols: return ncols[nc]
RECURSIVE NormLoop(_, _)
NormLoop(cols, candidates) ==
    IF candidates = <<>> THEN None
    ELSE IF norm(Head(candidates)) \in DOMAIN ncols(cols)
         THEN Some(NormHit(cols, Head(candidates)))
    ELSE NormLoop(cols, Tail(candidates))

_pick_col(cols, candidates) ==
    LET exact == ExactLoop(cols, candidates)
    IN  IF exact # None THEN exact ELSE NormLoop(cols, candidates)

----------------------------------------------------------------------------
(* Dates.  A datetime.date is its proleptic Gregorian ordinal, as          *)
(* date.toordinal() gives it; the calendar arithmetic is Python's.         *)

Years == 2024..2029
Months == 1..12

IsLeap(y) == y % 4 = 0 /\ (y % 100 # 0 \/ y % 400 = 0)

DaysInMonth(y, m) ==
    IF m = 2 THEN (IF IsLeap(y) THEN 29 ELSE 28)
    ELSE IF m \in {4, 6, 9, 11} THEN 30 ELSE 31

DaysBeforeYear(y) ==
    (y - 1) * 365 + ((y - 1) \div 4) - ((y - 1) \div 100) + ((y - 1) \div 400)

RECURSIVE DaysBeforeMonth(_, _)
DaysBeforeMonth(y, m) ==
    IF m = 1 THEN 0 ELSE DaysBeforeMonth(y, m - 1) + DaysInMonth(y, m - 1)

\* date(y, m, d) raises ValueError unless this holds
ValidYmd(y, m, d) == m \in Months /\ d >= 1 /\ d <= DaysInMonth(y, m)

\* date(y, m, d)
Ymd(y, m, d) == DaysBeforeYear(y) + DaysBeforeMonth(y, m) + d

YearOf(n) == CHOOSE y \in Years : DaysBeforeYear(y) < n /\ n <= DaysBeforeYear(y + 1)
MonthOf(n) ==
    LET y == YearOf(n)
    IN  CHOOSE m \in Months :
            /\ Ymd(y, m, 1) <= n
            /\ n < Ymd(y, m, 1) + DaysInMonth(y, m)
DayOf(n) == n - Ymd(YearOf(n), MonthOf(n), 1) + 1

\* date.weekday(): Monday is 0
Weekday(n) == (n + 6) % 7

\* (d + relativedelta(months=1)) for a first day of a month, as <<y, m>>
NextMonth(y, m) == IF m = 12 THEN <<y + 1, 1>> ELSE <<y, m + 1>>

Pad2(k) == IF k < 10 THEN "0" \o ToString(k) ELSE ToString(k)

\* date.isoformat(), which is also str(date)
IsoFormat(n) ==
    ToString(YearOf(n)) \o "-" \o Pad2(MonthOf(n)) \o "-" \o Pad2(DayOf(n))

\* DAYS_FORWARD = int(os.getenv("DAYS_FORWARD", "90"))
DAYS_FORWARD == 90

\* The days a run may take place on: the second Friday of December 2026 and
\* the day after it, 90 days before the second Friday of March 2027.  The
\* clock is read once per run here: a run is taken not to cross midnight.
Todays == {Ymd(2026, 12, 11), Ymd(2026, 12, 12)}

\* date_range(): (start, end)
date_range(today) == <<today, today + DAYS_FORWARD>>

InRange_ExclusiveEnd(start, d, end) == start <= d /\ d < end

\* start <= dd <= end
InRange(start, d, end) == start <= d /\ d <= end

----------------------------------------------------------------------------
(* Calendars and events.  A calendar is the sequence of its VEVENTs; an    *)
(* event is a record of summary, dtstart, dtend, description and uid       *)
(* (dtstamp, the wall-clock time of generation, is left out).  A dtstart   *)
(* or dtend is a day with an optional time of day <<hh, mm>>.              *)

AllDay(n) == [day |-> n, time |-> None]
Timed(n, hh, mm) == [day |-> n, time |-> Some(<<hh, mm>>)]

\* The calendars a category works with: its own ("cal") and the combined
\* one ("cal_all").
Cals(own, all) == [cal |-> own, cal_all |-> all]

NewAllDayEvent(day, summary, description, uid) ==
    [summary |-> summary,
     dtstart |-> AllDay(day),
     dtend |-> AllDay(day + 1),
     description |-> IF description # "" THEN Some(description) ELSE None,
     uid |-> IF uid # "" THEN uid
             ELSE summary \o "-" \o IsoFormat(day) \o "@cn-market-calendar"]

\* add_all_day_event(cals, day, summary, description, uid): a new Event for
\* every calendar named in `into`
add_all_day_event(cs, into, day, summary, description, uid) ==
    [c \in DOMAIN cs |->
        IF c \in into
        THEN Append(cs[c], NewAllDayEvent(day, summary, description, uid))
        ELSE cs[c]]

Both == {"cal", "cal_all"}

----------------------------------------------------------------------------
(* Text helpers                                                            *)

\* The str whose characters are s, as one TLA+ string (used where the code
\* formats a value into an f-string).
RECURSIVE Text(_)
Text(s) == IF s = <<>> THEN "" ELSE Head(s) \o Text(Tail(s))

RECURSIVE LStrip(_)
LStrip(s) ==
    IF s # <<>> /\ Head(s) \in WhitespaceChars THEN LStrip(Tail(s)) ELSE s

RECURSIVE RStrip(_)
RStrip(s) ==
    IF s # <<>> /\ s[Len(s)] \in WhitespaceChars
    THEN RStrip(SubSeq(s, 1, Len(s) - 1)) ELSE s

\* str.strip()
strip(s) == RStrip(LStrip(s))

\* str.replace(ch, "") for a one-character ch
Remove(s, ch) == SelectSeq(s, LAMBDA c : c # ch)

\* s contains `sub` (Python's `sub in s`)
Contains(s, sub) ==
    \E i \in 1..(Len(s) - Len(sub) + 1) : SubSeq(s, i, i + Len(sub) - 1) = sub

DigitChars == {"0", "1", "2", "3", "4", "5", "6", "7", "8", "9"}
DigitVal(ch) == CHOOSE k \in 0..9 : ToString(k) = ch
IsDigits(s) == \A i \in 1..Len(s) : s[i] \in DigitChars

\* int(s) for a string of decimal digits
RECURSIVE IntOf(_)
IntOf(s) ==
    IF s = <<>> THEN 0
    ELSE IntOf(SubSeq(s, 1, Len(s) - 1)) * 10 + DigitVal(s[Len(s)])

\* str(k) for k >= 0, as characters
RECURSIVE Digits(_)
Digits(k) ==
    IF k < 10 THEN <<ToString(k)>> ELSE Append(Digits(k \div 10), ToString(k % 10))

Digits2(k) == IF k < 10 THEN <<"0">> \o Digits(k) ELSE Digits(k)

RECURSIVE Pow10(_)
Pow10(k) == IF k = 0 THEN 1 ELSE 10 * Pow10(k - 1)

\* The characters of date.isoformat()
IsoChars(n) ==
    Digits(YearOf(n)) \o <<"-">> \o Digits2(MonthOf(n)) \o <<"-">> \o Digits2(DayOf(n))

----------------------------------------------------------------------------
(* Cells of a dataset (a pandas DataFrame), and rows                       *)

NoneCell == [k |-> "None"]
NaNCell == [k |-> "nan"]
StrCell(s) == [k |-> "str", s |-> s]
TsCell(n) == [k |-> "Timestamp", day |-> n]
\* a float with one decimal place, given in tenths
FloatCell(t) == [k |-> "float", tenths |-> t]

\* str(x) of a cell, as characters
PyStr(x) ==
    CASE x.k = "None" -> <<"N", "o", "n", "e">>
      [] x.k = "nan" -> <<"n", "a", "n">>
      [] x.k = "str" -> x.s
      [] x.k = "Timestamp" ->
            IsoChars(x.day) \o <<" ", "0", "0", ":", "0", "0", ":", "0", "0">>
      [] x.k = "float" -> Digits(x.tenths \div 10) \o <<".">> \o Digits(x.tenths % 10)

\* r.get(col, "")
Get(r, col) == IF col \in DOMAIN r THEN r[col] ELSE StrCell(<<>>)

\* str(r.get(col, "")).strip() if col else ""
Field(r, col) == IF col # None THEN strip(PyStr(Get(r, col[1]))) ELSE <<>>

\* pd.to_datetime of a str: the model's parser reads YYYY-MM-DD; the empty
\* string gives NaT and any other text raises.
ParseDate(s) ==
    IF /\ Len(s) = 10
       /\ s[5] = "-" /\ s[8] = "-"
       /\ IsDigits(SubSeq(s, 1, 4)) /\ IsDigits(SubSeq(s, 6, 7)) /\ IsDigits(SubSeq(s, 9, 10))
       /\ ValidYmd(IntOf(SubSeq(s, 1, 4)), IntOf(SubSeq(s, 6, 7)), IntOf(SubSeq(s, 9, 10)))
    THEN Some(Ymd(IntOf(SubSeq(s, 1, 4)), IntOf(SubSeq(s, 6, 7)), IntOf(SubSeq(s, 9, 10))))
    ELSE None

\* _to_dt(x): the datetime, or None.  Every caller takes .date() of the
\* result, so the result is given as that date.
_to_dt(x) ==
    CASE x.k \in {"None", "nan"} -> None
      [] x.k = "str" -> ParseDate(x.s)
      [] x.k = "Timestamp" -> Some(x.day)
      [] x.k = "float" -> Some(Ymd(1970, 1, 1))

\* _to_dt(r.get(col)) if col else None
DateField(r, col) == IF col # None THEN _to_dt(Get(r, col[1])) ELSE None

\* f"{nm}({code})" if code and nm else (nm or code or fallback)
Title(nm, code, fallback) ==
    IF code # <<>> /\ nm # <<>> THEN Text(nm) \o "(" \o Text(code) \o ")"
    ELSE IF nm # <<>> THEN Text(nm)
    ELSE IF code # <<>> THEN Text(code)
    ELSE fallback

\* "; ".join([x for x in parts if x]) with the full-width semicolon
RECURSIVE JoinParts(_)
JoinParts(parts) ==
    LET kept == SelectSeq(parts, LAMBDA x : x # "")
    IN  IF kept = <<>> THEN ""
        ELSE IF Len(kept) = 1 THEN kept[1]
        ELSE kept[1] \o ";" \o JoinParts(Tail(kept))

\* What a category function leaves behind: the calendars, whether it raised,
\* and whether it wrote its own file.
Outcome(cs, raised) == [cs |-> cs, raised |-> raised, wrote |-> ~raised]

----------------------------------------------------------------------------
(* Column labels of the datasets (CJK characters by pinyin)                *)



----------------------------------------------------------------------------
(* 01 gen_ipo_calendar                                                     *)

\* in_range(d)
in_range(d, start, end) == IF d = None THEN FALSE ELSE InRange(start, d[1], end)

IpoRow(cs, r, start, end, code_col, name_col, apply_col, pay_col, list_col) ==
    LET code == Field(r, code_col)
        nm == Field(r, name_col)
        title == Title(nm, code, "xingu")
        d_apply == DateField(r, apply_col)
        d_pay == DateField(r, pay_col)
        d_list == DateField(r, list_col)
        cs1 == IF in_range(d_apply, start, end)
               THEN add_all_day_event(cs, Both, d_apply[1], "xingushengou|" \o title, "",
                        "ipo-apply-" \o Text(code) \o "-" \o IsoFormat(d_apply[1]))
               ELSE cs
        cs2 == IF in_range(d_pay, start, end)
               THEN add_all_day_event(cs1, Both, d_pay[1], "zhongqianjiaokuan|" \o title, "",
                        "ipo-pay-" \o Text(code) \o "-" \o IsoFormat(d_pay[1]))
               ELSE cs1
    IN  IF in_range(d_list, start, end)
        THEN add_all_day_event(cs2, Both, d_list[1], "xingushangshi|" \o title, "",
                 "ipo-list-" \o Text(code) \o "-" \o IsoFormat(d_list[1]))
        ELSE cs2

\* gen_ipo_calendar(cal_all): env.fetch is whether ak.stock_xgsglb_em()
\* returns ("ok") or raises.
gen_ipo_calendar(cal_all, today, env) ==
    LET start == date_range(today)[1]
        end == date_range(today)[2]
        df == env.df
    IN  IF env.fetch # "ok" THEN Outcome(Cals(<<>>, cal_all), TRUE)
        ELSE LET code_col == _pick_col(df.columns, <<L.GuPiaoDaiMa, L.ShenGouDaiMa>>)
                 name_col == _pick_col(df.columns, <<L.GuPiaoJianCheng>>)
                 apply_col == _pick_col(df.columns, <<L.ShenGouRiQi>>)
                 pay_col == _pick_col(df.columns,
                                <<L.ZhongQianJiaoKuanRiQi, L.WangShangShenGouJiaoKuanRi>>)
                 list_col == _pick_col(df.columns, <<L.ShangShiRiQi, L.ShangShiRi>>)
                 \* for _, r in df.iterrows(): ...
                 cs == LET RECURSIVE Loop(_, _)
                           Loop(c, rows) ==
                               IF rows = <<>> THEN c
                               ELSE Loop(IpoRow(c, Head(rows), start, end, code_col, name_col,
                                                apply_col, pay_col, list_col),
                                         Tail(rows))
                       IN  Loop(Cals(<<>>, cal_all), df.rows)
             IN  Outcome(cs, env.write = "raises")

----------------------------------------------------------------------------
(* 03 gen_earnings_calendar                                                *)

EarningsRow(cs, r, start, end, code_col, name_col, first_col, actual_col, report_col) ==
    LET code == Field(r, code_col)
        nm == Field(r, name_col)
        rp == Field(r, report_col)
        title == Title(nm, code, "caibao")
        d0 == DateField(r, actual_col)
        d == IF d0 = None /\ first_col # None THEN DateField(r, first_col) ELSE d0
    IN  IF d = None THEN cs
        ELSE IF ~InRange(start, d[1], end) THEN cs
        ELSE add_all_day_event(cs, Both, d[1],
                 "caibaopilu|" \o title \o (IF rp # <<>> THEN "|" \o Text(rp) ELSE ""), "",
                 "earn-" \o Text(code) \o "-" \o IsoFormat(d[1]))

gen_earnings_calendar(cal_all, today, env) ==
    LET start == date_range(today)[1]
        end == date_range(today)[2]
        df == env.df
    IN  IF env.fetch # "ok" THEN Outcome(Cals(<<>>, cal_all), TRUE)
        ELSE LET code_col == _pick_col(df.columns, <<L.GuPiaoDaiMa, L.DaiMa>>)
                 name_col == _pick_col(df.columns, <<L.GuPiaoJianCheng, L.MingCheng>>)
                 first_col == _pick_col(df.columns,
                                <<L.ShouCiYuYue, L.ShouCiYuYuePiLu, L.ShouCiYuYueShiJian>>)
                 actual_col == _pick_col(df.columns, <<L.ShiJiPiLu, L.ShiJiPiLuShiJian>>)
                 report_col == _pick_col(df.columns,
                                <<L.BaoGaoQi, L.BaoGaoQiBie, L.BaoGaoQiLeiXing>>)
                 \* for _, r in df.iterrows(): ...
                 cs == LET RECURSIVE Loop(_, _)
                           Loop(c, rows) ==
                               IF rows = <<>> THEN c
                               ELSE Loop(EarningsRow(c, Head(rows), start, end, code_col,
                                                     name_col, first_col, actual_col, report_col),
                                         Tail(rows))
                       IN  Loop(Cals(<<>>, cal_all), df.rows)
             IN  Outcome(cs, env.write = "raises")

----------------------------------------------------------------------------
(* 04 gen_dividend_calendar                                                *)

DividendRow(cs, r, start, end, date_col, code_col, name_col, plan_col) ==
    LET d == DateField(r, date_col)
        code == Field(r, code_col)
        nm == Field(r, name_col)
        plan == Field(r, plan_col)
        title == Title(nm, code, "fenhong")
    IN  IF d = None THEN cs
        ELSE IF ~InRange(start, d[1], end) THEN cs
        ELSE add_all_day_event(cs, Both, d[1], "fenhong/chuquanchuxi|" \o title, Text(plan),
                 "div-" \o Text(code) \o "-" \o IsoFormat(d[1]))

\* env.fetch: "ok" when stock_fhps_em or stock_fhps_detail_em exists and
\* returns, "raises" when the one called raises, "missing" when ak has neither.
gen_dividend_calendar(cal_all, today, env) ==
    LET start == date_range(today)[1]
        end == date_range(today)[2]
        df == env.df
    IN  IF env.fetch # "ok" THEN Outcome(Cals(<<>>, cal_all), TRUE)
        ELSE LET date_col == _pick_col(df.columns,
                                <<L.ChuQuanChuXiRi, L.ChuXiRi, L.QuanYiDengJiRi, L.RiQi>>)
                 code_col == _pick_col(df.columns, <<L.DaiMa, L.GuPiaoDaiMa>>)
                 name_col == _pick_col(df.columns, <<L.MingCheng, L.GuPiaoJianCheng>>)
                 plan_col == _pick_col(df.columns,
                                <<L.FenHongFangAn, L.FangAn, L.SongZhuanPai, L.PaiXiFangAn>>)
                 \* for _, r in df.iterrows(): ...
                 cs == LET RECURSIVE Loop(_, _)
                           Loop(c, rows) ==
                               IF rows = <<>> THEN c
                               ELSE Loop(DividendRow(c, Head(rows), start, end, date_col,
                                                     code_col, name_col, plan_col),
                                         Tail(rows))
                       IN  Loop(Cals(<<>>, cal_all), df.rows)
             IN  Outcome(cs, env.write = "raises")

----------------------------------------------------------------------------
(* 02 gen_unlock_calendar                                                  *)

\* UNLOCK_MV_MIN_YI = float(os.getenv("UNLOCK_MV_MIN_YI", "5"))
UNLOCK_MV_MIN_YI == 5

\* float(s): None when it raises ValueError, else the value as num/den, or
\* nan.  The model's parser reads "nan" and unsigned decimals.
PyFloat(s) ==
    LET dots == {i \in 1..Len(s) : s[i] = "."}
        ip == IF dots = {} THEN s ELSE SubSeq(s, 1, (CHOOSE i \in dots : TRUE) - 1)
        fp == IF dots = {} THEN <<>>
              ELSE SubSeq(s, (CHOOSE i \in dots : TRUE) + 1, Len(s))
    IN  IF s = <<"n", "a", "n">> THEN Some([nan |-> TRUE, num |-> 0, den |-> 1])
        ELSE IF /\ Cardinality(dots) <= 1
                /\ IsDigits(ip) /\ IsDigits(fp)
                /\ Len(ip) + Len(fp) > 0
             THEN Some([nan |-> FALSE, num |-> IntOf(ip \o fp), den |-> Pow10(Len(fp))])
        ELSE None

\* mv_yi < UNLOCK_MV_MIN_YI (False for nan)
BelowThreshold(v) == ~v.nan /\ v.num < UNLOCK_MV_MIN_YI * v.den

\* mv_yi = float(str(mv).replace(",", "").replace(yi, "").strip()) if mv,
\* None when mv is empty or float raises
ParseMv(mv) ==
    IF mv # <<>> THEN PyFloat(strip(Remove(Remove(mv, ","), "yi"))) ELSE None

\* if mv_yi is not None and mv_yi < UNLOCK_MV_MIN_YI: continue
MvFilteredOut(mv) ==
    LET mv_yi == ParseMv(mv) IN mv_yi # None /\ BelowThreshold(mv_yi[1])

UnlockFetchCandidates ==
    <<"stock_restricted_release_queue_em",
      "stock_restricted_release_summary_em",
      "stock_restricted_release_detail_em",
      "stock_restricted_release_em">>

\* The fetch loop: api[fn] is "missing" (no such attribute of ak), "raises"
\* or "ok".  Gives the function that returned the dataset, if any, and the
\* functions tried.
RECURSIVE UnlockFetchLoop(_, _, _)
UnlockFetchLoop(api, fns, tried) ==
    IF fns = <<>> THEN [used |-> None, tried |-> tried]
    ELSE IF api[Head(fns)] = "missing" THEN UnlockFetchLoop(api, Tail(fns), tried)
    ELSE IF api[Head(fns)] = "ok"
         THEN [used |-> Some(Head(fns)), tried |-> Append(tried, Head(fns))]
    ELSE UnlockFetchLoop(api, Tail(fns), Append(tried, Head(fns)))

UnlockFetch(api) == UnlockFetchLoop(api, UnlockFetchCandidates, <<>>)

UnlockNotFound_NamesAll(tried) == [type |-> "RuntimeError", tried |-> UnlockFetchCandidates]

\* raise RuntimeError(f"...{tried}..."): the failure that names the functions
\* tried
UnlockNotFound(tried) == [type |-> "RuntimeError", tried |-> tried]

\* The body of the loop over df.iterrows()
UnlockRow(cs, r, start, end, date_col, code_col, name_col, amt_col, mv_col) ==
    LET d == DateField(r, date_col)
        code == Field(r, code_col)
        nm == Field(r, name_col)
        amt == Field(r, amt_col)
        mv == Field(r, mv_col)
        title == Title(nm, code, "jiejin")
        desc == JoinParts(<<IF amt # <<>> THEN "jiejinshuliang: " \o Text(amt) ELSE "",
                            IF mv # <<>> THEN "jiejinshizhi: " \o Text(mv) ELSE "">>)
    IN  IF d = None THEN cs
        ELSE IF ~InRange(start, d[1], end) THEN cs
        ELSE IF MvFilteredOut(mv) THEN cs
        ELSE add_all_day_event(cs, Both, d[1], "xianshoujiejin|" \o title, desc,
                               "unlock-" \o Text(code) \o "-" \o IsoFormat(d[1]))

\* gen_unlock_calendar(cal_all), on `today`, in the environment env:
\* env.api the fetch functions, env.df the dataset, env.write whether
\* write_ics succeeds.  Besides the outcome, the result tells the fetch
\* functions called (tried.append(fn) stands right before each call), the
\* one whose dataset is used and the RuntimeError raised when there is none.
gen_unlock_calendar(cal_all, today, env) ==
    LET start == date_range(today)[1]
        end == date_range(today)[2]
        df == env.df
        fetch == UnlockFetch(env.api)
        Fetched(failure) ==
            [called |-> fetch.tried, used |-> fetch.used, failure |-> failure]
    IN  IF fetch.used = None
        THEN Outcome(Cals(<<>>, cal_all), TRUE) @@ Fetched(Some(UnlockNotFound(fetch.tried)))
        ELSE LET date_col == _pick_col(df.columns, <<L.JieJinRiQi, L.RiQi>>)
                 code_col == _pick_col(df.columns, <<L.GuPiaoDaiMa, L.DaiMa>>)
                 name_col == _pick_col(df.columns, <<L.GuPiaoJianCheng, L.MingCheng>>)
                 amt_col == _pick_col(df.columns,
                     <<L.JieJinShuLiang, L.JieJinGuShu, L.ShuLiang, L.JieJinShuLiangWanGu>>)
                 mv_col == _pick_col(df.columns, UnlockMvCandidates)
                 \* for _, r in df.iterrows(): ...
                 cs == LET RECURSIVE Loop(_, _)
                           Loop(c, rows) ==
                               IF rows = <<>> THEN c
                               ELSE Loop(UnlockRow(c, Head(rows), start, end, date_col,
                                                   code_col, name_col, amt_col, mv_col),
                                         Tail(rows))
                       IN  Loop(Cals(<<>>, cal_all), df.rows)
             IN  Outcome(cs, env.write = "raises") @@ Fetched(None)

----------------------------------------------------------------------------
(* 05 gen_index_rebalance_calendar                                         *)

RECURSIVE FirstFridayFrom(_)
FirstFridayFrom(d) == IF Weekday(d) # 4 THEN FirstFridayFrom(d + 1) ELSE d

\* second_friday(y, m)
second_friday(y, m) == FirstFridayFrom(Ymd(y, m, 1)) + 7

\* while cursor <= end: ...; cursor = first day of the next month
RECURSIVE IndexLoop(_, _, _, _, _)
IndexLoop(cs, y, m, start, end) ==
    IF ~(Ymd(y, m, 1) <= end) THEN cs
    ELSE LET d == second_friday(y, m)
             cs1 == IF m \in {3, 6, 9, 12} /\ InRange(start, d, end)
                    THEN add_all_day_event(cs, Both, d, "zhishuyangbendingqitiaozheng", "",
                                           "idx-reb-" \o IsoFormat(d))
                    ELSE cs
         IN  IndexLoop(cs1, NextMonth(y, m)[1], NextMonth(y, m)[2], start, end)

gen_index_rebalance_calendar(cal_all, today, env) ==
    LET start == date_range(today)[1]
        end == date_range(today)[2]
        cs == IndexLoop(Cals(<<>>, cal_all), YearOf(start), MonthOf(start), start, end)
    IN  Outcome(cs, env.write = "raises")

----------------------------------------------------------------------------
(* 06 gen_macro_calendar                                                   *)

\* The interpreter's str hash is keyed by a per-process random secret
\* (PYTHONHASHSEED): abs(hash(s)) is a function of the secret and of s.  Its
\* decimal digits are written here as a token naming both.
PyHash(hashseed, s) == "H" \o ToString(hashseed) \o "<" \o s \o ">"

Count(s, ch) == Cardinality({i \in 1..Len(s) : s[i] = ch})

\* re.findall(r"\d+", s)[0]: the first maximal run of digits, or None
FirstDigitRun(s) ==
    LET starts == {i \in 1..Len(s) : s[i] \in DigitChars}
    IN  IF starts = {} THEN None
        ELSE LET i == CHOOSE a \in starts : \A b \in starts : a <= b
                 j == CHOOSE e \in i..Len(s) :
                        /\ \A k \in i..e : s[k] \in DigitChars
                        /\ (e = Len(s) \/ s[e + 1] \notin DigitChars)
             IN  Some(SubSeq(s, i, j))

MacroCountries == {<<"zhong", "guo">>, <<"mei", "guo">>, <<"ou", "yuan", "qu">>}

\* The importance filter: TRUE when the row is dropped
ImportanceTooLow(imp) ==
    IF imp = <<>> THEN FALSE
    ELSE IF Contains(imp, <<"gao">>) \/ Contains(imp, <<"zhong", "yao">>) THEN FALSE
    ELSE IF FirstDigitRun(imp) # None THEN IntOf(FirstDigitRun(imp)[1]) < 3
    ELSE IF Contains(imp, <<"U+2605">>) THEN Count(imp, "U+2605") < 3
    ELSE FALSE

MacroRow(cs, r, start, end, hashseed, time_col, country_col, event_col, imp_col, exp_col, pre_col) ==
    LET dtt == DateField(r, time_col)
        ctry == Field(r, country_col)
        evn == Field(r, event_col)
        imp == Field(r, imp_col)
        exp == Field(r, exp_col)
        pre == Field(r, pre_col)
        summary == IF ctry # <<>> THEN Text(ctry) \o "|" \o Text(evn) ELSE Text(evn)
        desc == JoinParts(<<IF imp # <<>> THEN "zhongyaoxing: " \o Text(imp) ELSE "",
                            IF exp # <<>> THEN "yuqi: " \o Text(exp) ELSE "",
                            IF pre # <<>> THEN "qianzhi: " \o Text(pre) ELSE "">>)
    IN  IF dtt = None THEN cs
        ELSE IF ~InRange(start, dtt[1], end) THEN cs
        ELSE IF ctry # <<>> /\ ctry \notin MacroCountries THEN cs
        ELSE IF ImportanceTooLow(imp) THEN cs
        ELSE add_all_day_event(cs, Both, dtt[1], "hongguanshuju|" \o summary, desc,
                 "macro-" \o IsoFormat(dtt[1]) \o "-" \o PyHash(hashseed, summary))

\* env.fetch: "missing" when ak has no macro_info_ws, "raises", or "ok"
gen_macro_calendar(cal_all, today, hashseed, env) ==
    LET start == date_range(today)[1]
        end == date_range(today)[2]
        df == env.df
    IN  IF env.fetch # "ok" THEN Outcome(Cals(<<>>, cal_all), TRUE)
        ELSE LET time_col == _pick_col(df.columns, <<L.ShiJian, L.date, L.datetime>>)
                 country_col == _pick_col(df.columns, <<L.GuoJia, L.country>>)
                 event_col == _pick_col(df.columns, <<L.ShiJian4, L.event, L.ZhiBiao>>)
                 imp_col == _pick_col(df.columns, <<L.ZhongYaoXing, L.importance>>)
                 exp_col == _pick_col(df.columns, <<L.YuQi, L.forecast>>)
                 pre_col == _pick_col(df.columns, <<L.QianZhi, L.previous>>)
                 \* for _, r in df.iterrows(): ...
                 cs == LET RECURSIVE Loop(_, _)
                           Loop(c, rows) ==
                               IF rows = <<>> THEN c
                               ELSE Loop(MacroRow(c, Head(rows), start, end, hashseed,
                                                  time_col, country_col, event_col, imp_col,
                                                  exp_col, pre_col),
                                         Tail(rows))
                       IN  Loop(Cals(<<>>, cal_all), df.rows)
             IN  Outcome(cs, env.write = "raises")

----------------------------------------------------------------------------
(* 07 gen_cn_report_deadlines_template                                     *)

\* for d, s in items: if start <= d <= end: add (items are <<d, s, desc, uidprefix>>)
RECURSIVE TemplateItems(_, _, _, _)
TemplateItems(cs, items, start, end) ==
    IF items = <<>> THEN cs
    ELSE LET it == Head(items)
             cs1 == IF InRange(start, it[1], end)
                    THEN add_all_day_event(cs, Both, it[1], it[2], it[3],
                                           it[4] \o it[2] \o "-" \o IsoFormat(it[1]))
                    ELSE cs
         IN  TemplateItems(cs1, Tail(items), start, end)

ReportFixedDays(yy) ==
    <<<<Ymd(yy, 4, 30), "A|yijibaopilujiezhiri", "", "tpl-report-deadline-">>,
      <<Ymd(yy, 4, 30), "A|nianbaopilujiezhiri", "", "tpl-report-deadline-">>,
      <<Ymd(yy, 8, 31), "A|zhongbaopilujiezhiri", "", "tpl-report-deadline-">>,
      <<Ymd(yy, 10, 31), "A|sanjibaopilujiezhiri", "", "tpl-report-deadline-">>>>

Window(d1, d2, s) ==
    <<d1, s, "chuangkoufanwei: " \o IsoFormat(d1) \o " ~ " \o IsoFormat(d2), "tpl-window-">>

ReportWindows(yy) ==
    <<Window(Ymd(yy, 1, 10), Ymd(yy, 1, 31), "A|nianbaoyugao/kuaibaomijichuangkou"),
      Window(Ymd(yy, 4, 1), Ymd(yy, 4, 30), "A|caibaopilugaofeng"),
      Window(Ymd(yy, 7, 1), Ymd(yy, 7, 31), "A|zhongbaoyugaomijichuangkou"),
      Window(Ymd(yy, 8, 1), Ymd(yy, 8, 31), "A|zhongbaopilugaofeng"),
      Window(Ymd(yy, 10, 1), Ymd(yy, 10, 31), "A|sanjibaopilugaofeng")>>

gen_cn_report_deadlines_template(cal_all, today, env) ==
    LET start == date_range(today)[1]
        end == date_range(today)[2]
        y == YearOf(start)
        cs == TemplateItems(Cals(<<>>, cal_all),
                  ReportFixedDays(y) \o ReportWindows(y)
                      \o ReportFixedDays(y + 1) \o ReportWindows(y + 1),
                  start, end)
    IN  Outcome(cs, env.write = "raises")

----------------------------------------------------------------------------
(* 08 gen_cn_macro_template                                                *)

MacroTemplateDays(yy, mm) ==
    <<<<Ymd(yy, mm, 7), "hongguan|waihuichubei", "", "tpl-macro-fx">>,
      <<Ymd(yy, mm, 10), "hongguan|CPI/PPI", "", "tpl-macro-cpi">>,
      <<Ymd(yy, mm, 15), "hongguan|sherong/xindai/M2", "", "tpl-macro-ts">>,
      <<Ymd(yy, mm, 20), "hongguan|LPR", "", "tpl-macro-lpr">>,
      <<Ymd(NextMonth(yy, mm)[1], NextMonth(yy, mm)[2], 1) - 1, "hongguan|PMI", "",
        "tpl-macro-pmi">>>>

\* for d in items: if start <= d <= end: add, with uid f"{prefix}-{d}"
RECURSIVE MacroTemplateItems(_, _, _, _)
MacroTemplateItems(cs, items, start, end) ==
    IF items = <<>> THEN cs
    ELSE LET it == Head(items)
             cs1 == IF InRange(start, it[1], end)
                    THEN add_all_day_event(cs, Both, it[1], it[2], it[3],
                                           it[4] \o "-" \o IsoFormat(it[1]))
                    ELSE cs
         IN  MacroTemplateItems(cs1, Tail(items), start, end)

RECURSIVE MacroTemplateLoop(_, _, _, _, _)
MacroTemplateLoop(cs, y, m, start, end) ==
    IF ~(Ymd(y, m, 1) <= end) THEN cs
    ELSE MacroTemplateLoop(MacroTemplateItems(cs, MacroTemplateDays(y, m), start, end),
                           NextMonth(y, m)[1], NextMonth(y, m)[2], start, end)

gen_cn_macro_template(cal_all, today, env) ==
    LET start == date_range(today)[1]
        end == date_range(today)[2]
        cs == MacroTemplateLoop(Cals(<<>>, cal_all), YearOf(start), MonthOf(start),
                                start, end)
    IN  Outcome(cs, env.write = "raises")

----------------------------------------------------------------------------
(* 09 gen_nbs_release_calendar: the grid table of the statistics bureau    *)

\* Cell texts of the grid table
\*   XuHao: the row-number header
\*   NeiRong: the content-label header
C ==
    [XuHao |-> <<"xu", "hao">>,
     NeiRong |-> <<"nei", "rong">>,
     Ellipsis |-> <<"U+2026", "U+2026">>,
     EmDash |-> <<"U+2014">>,
     Hyphen |-> <<"-">>,
     A |-> <<"zhi", "biao", "A">>,
     D5 |-> <<"5", "/", "yi1">>,
     D30 |-> <<"3", "0", "/", "wu3", " ", "zhu", "5">>,
     T930 |-> <<"9", ":", "3", "0">>,
     T1000 |-> <<"1", "0", ":", "0", "0">>,
     T2500 |-> <<"2", "5", ":", "0", "0">>,
     Title |-> <<"2", "0", "2", "6", "nian", "ri", "cheng">>]

\* "1yue" .. "12yue", the month headers
MonthLabel(m) == Digits(m) \o <<"yue4">>

\* sep.join(r) for a list of strings, sep one character
RECURSIVE Join(_, _)
Join(r, sep) ==
    IF r = <<>> THEN <<>>
    ELSE IF Len(r) = 1 THEN r[1]
    ELSE r[1] \o <<sep>> \o Join(Tail(r), sep)

\* The header test, on the joined text of a row or of a whole table
HasHeaderMarks(text) ==
    /\ Contains(text, C.XuHao)
    /\ Contains(text, C.NeiRong)
    /\ Contains(text, MonthLabel(1))
    /\ Contains(text, MonthLabel(12))

\* The least element of a non-empty set of integers
Least(S) == CHOOSE a \in S : \A b \in S : a <= b

\* parse_day(cell): re.match(r"^\s*(\d{1,2})\s*/", cell), after the
\* placeholder tests
parse_day(cell) ==
    IF cell = <<>> THEN None
    ELSE IF Contains(cell, C.Ellipsis) \/ cell \in {C.Hyphen, C.EmDash} THEN None
    ELSE LET body == LStrip(cell)
             \* the digits the group takes: two when the match then succeeds,
             \* else one
             Ok(n) == /\ Len(body) >= n
                      /\ IsDigits(SubSeq(body, 1, n))
                      /\ LET rest == LStrip(SubSeq(body, n + 1, Len(body)))
                         IN  rest # <<>> /\ rest[1] = "/"
         IN  IF Ok(2) THEN Some(IntOf(SubSeq(body, 1, 2)))
             ELSE IF Ok(1) THEN Some(IntOf(SubSeq(body, 1, 1)))
             ELSE None

\* The match of (\d{1,2}):(\d{2}) that starts at position i, if any
TimeMatchAt(s, i) ==
    LET Ok(n) == /\ i + n + 2 <= Len(s)
                 /\ IsDigits(SubSeq(s, i, i + n - 1))
                 /\ s[i + n] = ":"
                 /\ IsDigits(SubSeq(s, i + n + 1, i + n + 2))
        At(n) == <<IntOf(SubSeq(s, i, i + n - 1)), IntOf(SubSeq(s, i + n + 1, i + n + 2))>>
    IN  IF Ok(2) THEN Some(At(2)) ELSE IF Ok(1) THEN Some(At(1)) ELSE None

\* parse_time(cell): re.search(r"(\d{1,2}):(\d{2})", cell), the leftmost match
parse_time(cell) ==
    LET hits == {i \in 1..Len(cell) : TimeMatchAt(cell, i) # None}
    IN  IF hits = {} THEN None ELSE TimeMatchAt(cell, Least(hits))

\* datetime(year, month, day, hh, mm) raises ValueError unless this holds
ValidDateTime(year, month, day, hh, mm) ==
    ValidYmd(year, month, day) /\ hh \in 0..23 /\ mm \in 0..59

\* dt + timedelta(hours=1)
PlusOneHour(n, hh, mm) == IF hh = 23 THEN Timed(n + 1, 0, mm) ELSE Timed(n, hh + 1, mm)

NbsUid(year, month, day, content, hashseed) ==
    "nbs-" \o ToString(year) \o "-" \o Pad2(month) \o "-" \o Pad2(day) \o "-"
        \o PyHash(hashseed, Text(content)) \o "@stats.gov.cn"

NbsDescription == "laiyuan: https://www.stats.gov.cn/sj/fbrc/bnxxfb/"

NbsTimedEvent(year, month, day, hh, mm, content, hashseed) ==
    [summary |-> "guojiatongjiju|" \o Text(content),
     dtstart |-> Timed(Ymd(year, month, day), hh, mm),
     dtend |-> PlusOneHour(Ymd(year, month, day), hh, mm),
     description |-> Some(NbsDescription),
     uid |-> NbsUid(year, month, day, content, hashseed)]

\* The months of the grid, as the 1-based columns of a row
MonthCol(m_start, month) == m_start + month - 1

\* len(r) > max(month_cols + [content_col])
LongEnough(r, m_start, content_col) ==
    Len(r) >= (IF m_start + 11 >= content_col THEN m_start + 11 ELSE content_col)

\* day_map: month -> day, for the months whose cell parses
day_map(r, m_start) ==
    [month \in {mi \in Months : parse_day(r[MonthCol(m_start, mi)]) # None} |->
        parse_day(r[MonthCol(m_start, month)])[1]]

\* The row after a date row is its time row when it is long enough, its
\* content cell is empty after strip and a month cell of it holds a time.
IsTimeRow(r2, m_start, content_col) ==
    /\ LongEnough(r2, m_start, content_col)
    /\ strip(r2[content_col]) = <<>>
    /\ \E mi \in Months : parse_time(r2[MonthCol(m_start, mi)]) # None

\* time_map: month -> <<hh, mm>>, empty when the next row is no time row
time_map(rows, i, m_start, content_col) ==
    IF i + 1 <= Len(rows) /\ IsTimeRow(rows[i + 1], m_start, content_col)
    THEN [month \in {mi \in Months :
                        parse_time(rows[i + 1][MonthCol(m_start, mi)]) # None} |->
            parse_time(rows[i + 1][MonthCol(m_start, month)])[1]]
    ELSE << >>

\* for month, day in day_map.items(): ...  (months in ascending order; a
\* ValueError of datetime() or date() ends the loop and the function)
RECURSIVE NbsEmit(_, _, _, _, _, _, _)
NbsEmit(st, month, year, days, times, content, hashseed) ==
    IF month > 12 \/ st.raised THEN st
    ELSE IF month \notin DOMAIN days
         THEN NbsEmit(st, month + 1, year, days, times, content, hashseed)
    ELSE LET day == days[month]
             hhmm == IF month \in DOMAIN times THEN Some(times[month])
                     ELSE IF DOMAIN times # {} THEN Some(times[Least(DOMAIN times)])
                     ELSE None
             st1 ==
                IF hhmm # None
                THEN IF ValidDateTime(year, month, day, hhmm[1][1], hhmm[1][2])
                     THEN LET ev == NbsTimedEvent(year, month, day, hhmm[1][1], hhmm[1][2],
                                                  content, hashseed)
                          IN  [st EXCEPT !.cs = [cal |-> Append(st.cs.cal, ev),
                                                 cal_all |-> Append(st.cs.cal_all, ev)]]
                     ELSE [st EXCEPT !.raised = TRUE]
                ELSE IF ValidYmd(year, month, day)
                     THEN [st EXCEPT !.cs = add_all_day_event(st.cs, Both,
                                Ymd(year, month, day), "guojiatongjiju|" \o Text(content),
                                NbsDescription, NbsUid(year, month, day, content, hashseed))]
                     ELSE [st EXCEPT !.raised = TRUE]
         IN  NbsEmit(st1, month + 1, year, days, times, content, hashseed)

\* while i < len(rows): ...   (i is 1-based here)
RECURSIVE NbsWalk(_, _, _, _, _, _, _)
NbsWalk(st, rows, i, year, m_start, content_col, hashseed) ==
    IF i > Len(rows) \/ st.raised THEN st
    ELSE LET r == rows[i]
         IN  IF ~LongEnough(r, m_start, content_col)
             THEN NbsWalk(st, rows, i + 1, year, m_start, content_col, hashseed)
             ELSE LET content == strip(r[content_col])
                      days == day_map(r, m_start)
                      times == time_map(rows, i, m_start, content_col)
                      eats == i + 1 <= Len(rows)
                                /\ IsTimeRow(rows[i + 1], m_start, content_col)
                  IN  IF content # <<>> /\ DOMAIN days # {}
                      THEN NbsWalk(NbsEmit(st, 1, year, days, times, content, hashseed),
                                   rows, (IF eats THEN i + 2 ELSE i + 1),
                                   year, m_start, content_col, hashseed)
                      ELSE NbsWalk(st, rows, i + 1, year, m_start, content_col, hashseed)

\* The first table of the page whose text has the header marks, or None
NbsTarget(tables) ==
    LET hits == {t \in 1..Len(tables) :
                    HasHeaderMarks(Join([k \in 1..Len(tables[t]) |->
                                            Join(tables[t][k], " ")], " "))}
    IN  IF hits = {} THEN None ELSE Some(tables[Least(hits)])

\* rows: the rows of the table that have cells
NbsRowsOf(table) == SelectSeq(table, LAMBDA cells : cells # <<>>)

\* header_idx: the first of the first ten rows with the header marks (1-based)
NbsHeaderIdx(rows) ==
    LET hits == {i \in 1..Len(rows) : i <= 10 /\ HasHeaderMarks(Join(rows[i], " "))}
    IN  IF hits = {} THEN None ELSE Some(Least(hits))

\* m_start: header.index("1yue"), else the first cell that contains it
NbsMonthStart(header) ==
    LET exact == {i \in 1..Len(header) : header[i] = MonthLabel(1)}
        loose == {i \in 1..Len(header) : Contains(header[i], MonthLabel(1))}
    IN  IF exact # {} THEN Least(exact) ELSE Least(loose)

\* content_col: the first header cell that contains the content label, else
\* the second column
NbsContentCol(header) ==
    LET hits == {i \in 1..Len(header) : Contains(header[i], C.NeiRong)}
    IN  IF hits = {} THEN 2 ELSE Least(hits)

\* year: the greatest of the years found in the page text, else this year
NbsYear(page_years, today) ==
    IF page_years # {} THEN CHOOSE y \in page_years : \A z \in page_years : z <= y
    ELSE YearOf(today)

\* gen_nbs_release_calendar(cal_all).  env.fetch: whether requests.get and
\* raise_for_status succeed; env.page: the years in the page text and its
\* tables; env.write: whether write_ics succeeds.
gen_nbs_release_calendar(cal_all, today, hashseed, env) ==
    LET cs0 == Cals(<<>>, cal_all)
        target == NbsTarget(env.page.tables)
    IN  IF env.fetch # "ok" THEN Outcome(cs0, TRUE)
        ELSE IF target = None THEN Outcome(cs0, TRUE)
        ELSE LET rows == NbsRowsOf(target[1])
                 header_idx == NbsHeaderIdx(rows)
             IN  IF header_idx = None THEN Outcome(cs0, TRUE)
                 ELSE LET header == rows[header_idx[1]]
                          st == NbsWalk([cs |-> cs0, raised |-> FALSE], rows,
                                        header_idx[1] + 1,
                                        NbsYear(env.page.years, today),
                                        NbsMonthStart(header), NbsContentCol(header),
                                        hashseed)
                      IN  Outcome(st.cs, st.raised \/ env.write = "raises")

----------------------------------------------------------------------------
(* Upstream data the categories are run on                                 *)

\* A DataFrame: columns[i] holds, in every row, the field roles[i] of the
\* row's data.
Df(columns, roles, datas) ==
    [columns |-> columns,
     rows |-> [k \in 1..Len(datas) |->
                [c \in Range(columns) |->
                    datas[k][roles[CHOOSE i \in 1..Len(columns) : columns[i] = c]]]]]

\* Cell values of the datasets
V ==
    [Code |-> StrCell(<<"6", "0", "0">>),
     Name |-> StrCell(<<" ", "mao", "tai">>),
     Abc |-> StrCell(<<"a", "b", "c">>),
     Empty |-> StrCell(<<>>),
     China |-> StrCell(<<"zhong", "guo">>),
     High |-> StrCell(<<"gao">>)]

\* Date cells around the two ends of the range
DateCells(today) ==
    LET start == date_range(today)[1]
        end == date_range(today)[2]
    IN  {TsCell(start - 1), TsCell(start), TsCell(start + 1), TsCell(end),
         TsCell(end + 1), NaNCell, StrCell(IsoChars(end)), V.Abc}

EdgeCells(today) ==
    {TsCell(date_range(today)[1]), TsCell(date_range(today)[2]),
     TsCell(date_range(today)[2] + 1)}

MvCells ==
    {FloatCell(30), FloatCell(49), FloatCell(50),
     StrCell(<<"3", "yi", "yuan">>), StrCell(<<"1", "0", "yi", "yuan">>),
     StrCell(<<"3", "yi">>), StrCell(<<"1", ",", "0", "0", "0">>),
     V.Empty, NaNCell}

FetchFails == [fetch |-> "raises", df |-> Df(<<>>, <<>>, <<>>), write |-> "ok"]
NoInput(write) == [write |-> write]

IpoDatas(today) ==
    LET Row(a, p, l) == [code |-> V.Code, name |-> V.Name, apply |-> a, pay |-> p, list |-> l]
    IN  {Row(d, NaNCell, NaNCell) : d \in DateCells(today)}
            \cup {Row(NaNCell, TsCell(today + DAYS_FORWARD), TsCell(today + DAYS_FORWARD + 1)),
                  Row(TsCell(today - 1), NaNCell, TsCell(today)),
                  Row(TsCell(today), TsCell(today + 1), TsCell(today + DAYS_FORWARD))}

IpoRoles == <<"code", "name", "apply", "pay", "list">>
IpoColumns ==
    {<<L.GuPiaoDaiMa, L.GuPiaoJianCheng, L.ShenGouRiQi, L.ZhongQianJiaoKuanRiQi,
       L.ShangShiRiQi>>,
     <<L.ShenGouDaiMa, L.GuPiaoJianCheng, L.ShenGouRiQi, L.WangShangShenGouJiaoKuanRi,
       L.ShangShiRi>>}

UnlockDatas(today) ==
    LET Row(d, mv) == [date |-> d, code |-> V.Code, name |-> V.Name,
                       amt |-> StrCell(<<"1", "0", "0">>), mv |-> mv]
    IN  {Row(d, FloatCell(100)) : d \in EdgeCells(today) \cup {TsCell(today - 1), NaNCell}}
            \cup {Row(TsCell(today), mv) : mv \in MvCells}

UnlockMainShape ==
    [columns |-> <<L.JieJinRiQi, L.GuPiaoDaiMa, L.GuPiaoJianCheng, L.JieJinShuLiang,
                   L.MV_YI>>,
     roles |-> <<"date", "code", "name", "amt", "mv">>]

UnlockPlainData(today) ==
    [date |-> TsCell(today), code |-> V.Code, name |-> V.Name,
     amt |-> StrCell(<<"1", "0", "0">>), mv |-> FloatCell(100)]

UnlockShapes ==
    {UnlockMainShape,
     [columns |-> <<L.RiQi, L.DaiMa, L.MingCheng, L.MV>>,
      roles |-> <<"date", "code", "name", "mv">>],
     [columns |-> <<L.JieJinRiQi, L.GuPiaoDaiMa>>,
      roles |-> <<"date", "code">>],
     [columns |-> <<L.GuPiaoDaiMa, L.MV>>,
      roles |-> <<"code", "mv">>]}


UnlockApis == [Range(UnlockFetchCandidates) -> {"missing", "raises", "ok"}]
UnlockApiFirst == [fn \in Range(UnlockFetchCandidates) |-> "ok"]

EarningsDatas(today) ==
    LET Row(a, f, rp) == [code |-> V.Code, name |-> V.Name, first |-> f, actual |-> a,
                          report |-> rp]
    IN  {Row(d, NaNCell, V.Empty) : d \in DateCells(today)}
            \cup {Row(NaNCell, d, StrCell(<<"Q", "1">>)) : d \in EdgeCells(today)}
            \cup {Row(V.Abc, TsCell(today), V.Empty)}

EarningsShapes ==
    {[columns |-> <<L.GuPiaoDaiMa, L.GuPiaoJianCheng, L.ShouCiYuYue, L.ShiJiPiLu, L.BaoGaoQi>>,
      roles |-> <<"code", "name", "first", "actual", "report">>],
     [columns |-> <<L.DaiMa, L.MingCheng, L.ShouCiYuYueShiJian>>,
      roles |-> <<"code", "name", "first">>]}

DividendDatas(today) ==
    LET Row(d, plan) == [date |-> d, code |-> V.Code, name |-> V.Name, plan |-> plan]
    IN  {Row(d, V.Empty) : d \in DateCells(today)}
            \cup {Row(TsCell(today), StrCell(<<"1", "0", "pai", "5">>))}

DividendShapes ==
    {[columns |-> <<L.ChuQuanChuXiRi, L.DaiMa, L.MingCheng, L.FenHongFangAn>>,
      roles |-> <<"date", "code", "name", "plan">>],
     [columns |-> <<L.RiQi, L.GuPiaoDaiMa, L.GuPiaoJianCheng>>,
      roles |-> <<"date", "code", "name">>]}


MacroDatas(today) ==
    LET Row(t, c, imp) == [time |-> t, country |-> c, event |-> StrCell(<<"C", "P", "I">>),
                           imp |-> imp, exp |-> V.Empty, pre |-> StrCell(<<"2">>)]
    IN  {Row(d, V.China, V.High) : d \in EdgeCells(today) \cup {TsCell(today - 1), NaNCell}}
            \cup {Row(TsCell(today), c, V.High) : c \in {V.Empty, StrCell(<<"ri", "ben">>)}}
            \cup {Row(TsCell(today), V.China, imp) :
                    imp \in {V.Empty, StrCell(<<"2">>), StrCell(<<"3">>),
                             StrCell(<<"U+2605", "U+2605">>),
                             StrCell(<<"U+2605", "U+2605", "U+2605">>),
                             StrCell(<<"di">>)}}

MacroShapes ==
    {[columns |-> <<L.ShiJian, L.GuoJia, L.ShiJian4, L.ZhongYaoXing, L.YuQi, L.QianZhi>>,
      roles |-> <<"time", "country", "event", "imp", "exp", "pre">>]}

\* The str-hash secrets a process may start with
HashSeeds == {0, 1}

----------------------------------------------------------------------------
(* Pages of the statistics bureau                                          *)

NbsHeader == <<C.XuHao, C.NeiRong>> \o [m \in 1..12 |-> MonthLabel(m)]


\* A row of the grid: the two leading cells, the cells of months 1 and 2,
\* and one filler for months 3 to 12
GridRow(no, content, c1, c2, fill) == <<no, content, c1, c2>> \o [i \in 1..10 |-> fill]

GridRows ==
    {GridRow(<<"1">>, C.A, c[1], c[2], C.Ellipsis) :
        c \in {<<C.D5, C.Ellipsis>>, <<C.D5, C.D30>>, <<C.D30, C.D5>>, <<C.D5, C.EmDash>>,
               <<C.Ellipsis, C.Ellipsis>>, <<C.Ellipsis, C.D30>>, <<<<>>, C.D5>>}}
    \cup {GridRow(<<"1">>, C.A, C.D5, <<"U+2026">>, <<"U+2026">>)}
    \cup {GridRow(<<>>, <<>>, C.D5, C.Ellipsis, C.Ellipsis)}
    \cup {GridRow(<<>>, <<>>, t[1], t[2], <<>>) :
            t \in {<<C.T930, <<>>>>, <<<<>>, C.T1000>>, <<C.T930, C.T1000>>,
                   <<C.T2500, <<>>>>}}
    \cup {GridRow(<<>>, <<"U+3000">>, C.T930, <<>>, <<>>)}
    \cup {GridRow(<<"2">>, C.A, C.T930, <<>>, <<>>)}
    \cup {<<<<"1">>, C.A>>}

Page(years, tables) == [years |-> years, tables |-> tables]


\* Pages that differ in structure: a title row above the header, a table
\* without the header in front, no year in the text, two years in the text,
\* no table, no header
\* marks, the header marks spread over two rows.
NbsOddPages ==
    LET body == <<GridRow(<<"1">>, C.A, C.D5, C.Ellipsis, C.Ellipsis),
                  GridRow(<<>>, <<>>, C.T930, <<>>, <<>>)>>
    IN  {Page({2026}, <<<<<<C.Title>>, NbsHeader>> \o body>>),
         Page({2026}, <<<<<<C.Title>>>>, <<NbsHeader>> \o body>>),
         Page({}, <<<<NbsHeader>> \o body>>),
         Page({2025, 2026}, <<<<NbsHeader>> \o body>>),
         Page({2026}, <<>>),
         Page({2026}, <<<<<<C.Title>>>> \o body>>),
         Page({2026}, <<<<<<C.XuHao, C.NeiRong>>, [m \in 1..12 |-> MonthLabel(m)]>> \o body>>)}

NbsOddEnvs ==
    {[fetch |-> "ok", page |-> pg, write |-> "ok"] : pg \in NbsOddPages}
    \cup {[fetch |-> "raises", page |-> Page({}, <<>>), write |-> "ok"]}

----------------------------------------------------------------------------
(* Specification of a call of _pick_col on every small input               *)

PickIdle == pk_pc = "idle" /\ pk_cols = <<>> /\ pk_cands = <<>> /\ pk_out = None
CatIdle ==
    /\ ct_pc = "idle" /\ ct_cat = "" /\ ct_today = 0 /\ ct_seed = 0
    /\ ct_env = NoInput("ok") /\ ct_res = Outcome(Cals(<<>>, <<>>), FALSE)

RunIdle ==
    /\ run_pc = "idle" /\ run_today = 0 /\ run_seed = 0 /\ run_cal_all = <<>>
    /\ run_files = <<>> /\ run_trace = <<>> /\ run_cals = <<>> /\ run_raised = {}
IdsIdle ==
    /\ id_pc = "idle" /\ id_cat = "" /\ id_today = 0 /\ id_env = NoInput("ok")
    /\ id_seeds = <<>> /\ id_uids = <<>>

InitPick ==
    /\ pk_pc = "call"
    /\ pk_cols \in SeqsUpTo(Labels, MaxCols)
    /\ pk_cands \in SeqsUpTo(Labels, MaxCands) \cup {UnlockMvCandidates}
    /\ pk_out = None
    /\ CatIdle /\ RunIdle /\ IdsIdle

PickCol ==
    /\ pk_pc = "call"
    /\ pk_out' = _pick_col(pk_cols, pk_cands)
    /\ pk_pc' = "done"
    /\ UNCHANGED <<pk_cols, pk_cands>>
    /\ UNCHANGED <<varsCat, varsRun, varsIds>>

NextPick == PickCol

SpecPick == InitPick /\ [][NextPick]_vars

----------------------------------------------------------------------------
(* Specification of one call of each category function on small upstream   *)
(* data                                                                    *)

Categories ==
    <<"ipo", "unlock", "earnings", "dividend", "index", "macro", "report_tpl",
      "macro_tpl", "nbs">>

InitCat ==
    /\ ct_pc = "call"
    /\ ct_cat \in Range(Categories)
    /\ ct_today \in Todays
    /\ ct_seed = 0
    /\ ct_env = NoInput("ok")
    /\ ct_res = Outcome(Cals(<<>>, <<>>), FALSE)
    /\ PickIdle /\ RunIdle /\ IdsIdle

Called(cat, seed, env, res) ==
    /\ ct_seed' = seed
    /\ ct_pc = "call"
    /\ ct_cat = cat
    /\ ct_pc' = "done"
    /\ UNCHANGED ct_cat
    /\ ct_env' = env
    /\ ct_res' = res
    /\ UNCHANGED ct_today
    /\ UNCHANGED <<varsPick, varsRun, varsIds>>

\* The datasets of at most n rows drawn from `datas`, in the given shapes,
\* are enumerated by the actions as Df(sh.columns, sh.roles, rows) for
\* rows \in [1..k -> datas], k \in 0..n.

CatIpo ==
    /\ ct_pc = "call" /\ ct_cat = "ipo"
    /\ \/ \E cols \in IpoColumns, k \in 0..MaxRows :
            \E datas \in [1..k -> IpoDatas(ct_today)], w \in {"ok", "raises"} :
                /\ w = "raises" => k = 1
                /\ LET env == [fetch |-> "ok", df |-> Df(cols, IpoRoles, datas), write |-> w]
                   IN  Called("ipo", ct_seed, env, gen_ipo_calendar(<<>>, ct_today, env))
       \/ Called("ipo", ct_seed, FetchFails, gen_ipo_calendar(<<>>, ct_today, FetchFails))

CatUnlock ==
    /\ ct_pc = "call" /\ ct_cat = "unlock"
    /\ \/ \E sh \in UnlockShapes, k \in 0..MaxRows :
            \E datas \in [1..k -> UnlockDatas(ct_today)] :
                /\ sh # UnlockMainShape => k = 1
                /\ LET env == [api |-> UnlockApiFirst,
                               df |-> Df(sh.columns, sh.roles, datas), write |-> "ok"]
                   IN  Called("unlock", ct_seed, env,
                              gen_unlock_calendar(<<>>, ct_today, env))
       \/ \E api \in UnlockApis, w \in {"ok", "raises"} :
                LET env == [api |-> api,
                            df |-> Df(UnlockMainShape.columns, UnlockMainShape.roles,
                                      <<UnlockPlainData(ct_today)>>),
                            write |-> w]
                IN  Called("unlock", ct_seed, env, gen_unlock_calendar(<<>>, ct_today, env))

CatEarnings ==
    /\ ct_pc = "call" /\ ct_cat = "earnings"
    /\ \/ \E sh \in EarningsShapes, k \in 0..MaxRows :
            \E datas \in [1..k -> EarningsDatas(ct_today)], w \in {"ok", "raises"} :
                /\ (w = "raises" \/ Len(sh.columns) < 4) => k = 1
                /\ LET env == [fetch |-> "ok", df |-> Df(sh.columns, sh.roles, datas),
                               write |-> w]
                   IN  Called("earnings", ct_seed, env,
                              gen_earnings_calendar(<<>>, ct_today, env))
       \/ Called("earnings", ct_seed, FetchFails,
                 gen_earnings_calendar(<<>>, ct_today, FetchFails))

CatDividend ==
    /\ ct_pc = "call" /\ ct_cat = "dividend"
    /\ \/ \E sh \in DividendShapes, k \in 0..MaxRows :
            \E datas \in [1..k -> DividendDatas(ct_today)], w \in {"ok", "raises"} :
                /\ (w = "raises" \/ Len(sh.columns) < 4) => k = 1
                /\ LET env == [fetch |-> "ok", df |-> Df(sh.columns, sh.roles, datas),
                               write |-> w]
                   IN  Called("dividend", ct_seed, env,
                              gen_dividend_calendar(<<>>, ct_today, env))
       \/ \E f \in {"raises", "missing"} :
            LET env == [FetchFails EXCEPT !.fetch = f]
            IN  Called("dividend", ct_seed, env, gen_dividend_calendar(<<>>, ct_today, env))

CatIndex ==
    /\ ct_pc = "call" /\ ct_cat = "index"
    /\ \E env \in {NoInput("ok"), NoInput("raises")} :
           Called("index", ct_seed, env, gen_index_rebalance_calendar(<<>>, ct_today, env))

CatMacro ==
    /\ ct_pc = "call" /\ ct_cat = "macro"
    /\ \E seed \in HashSeeds :
        \/ \E sh \in MacroShapes, k \in 0..MaxRows :
            \E datas \in [1..k -> MacroDatas(ct_today)], w \in {"ok", "raises"} :
                /\ w = "raises" => k = 1
                /\ LET env == [fetch |-> "ok", df |-> Df(sh.columns, sh.roles, datas),
                               write |-> w]
                   IN  Called("macro", seed, env,
                              gen_macro_calendar(<<>>, ct_today, seed, env))
        \/ \E f \in {"raises", "missing"} :
            LET env == [FetchFails EXCEPT !.fetch = f]
            IN  Called("macro", seed, env, gen_macro_calendar(<<>>, ct_today, seed, env))

CatReportTemplate ==
    /\ ct_pc = "call" /\ ct_cat = "report_tpl"
    /\ \E env \in {NoInput("ok"), NoInput("raises")} :
           Called("report_tpl", ct_seed, env,
                  gen_cn_report_deadlines_template(<<>>, ct_today, env))

CatMacroTemplate ==
    /\ ct_pc = "call" /\ ct_cat = "macro_tpl"
    /\ \E env \in {NoInput("ok"), NoInput("raises")} :
           Called("macro_tpl", ct_seed, env, gen_cn_macro_template(<<>>, ct_today, env))

CatNbs ==
    /\ ct_pc = "call" /\ ct_cat = "nbs"
    /\ \E seed \in HashSeeds :
        \/ \E k \in 0..MaxGridRows :
            \E rows \in [1..k -> GridRows], w \in {"ok", "raises"} :
                /\ w = "raises" => k = 1
                /\ LET env == [fetch |-> "ok",
                               page |-> Page({2026}, <<<<NbsHeader>> \o rows>>),
                               write |-> w]
                   IN  Called("nbs", seed, env,
                              gen_nbs_release_calendar(<<>>, ct_today, seed, env))
        \/ \E env \in NbsOddEnvs :
            Called("nbs", seed, env, gen_nbs_release_calendar(<<>>, ct_today, seed, env))

NextCat ==
    \/ CatIpo
    \/ CatUnlock
    \/ CatEarnings
    \/ CatDividend
    \/ CatIndex
    \/ CatMacro
    \/ CatReportTemplate
    \/ CatMacroTemplate
    \/ CatNbs

SpecCat == InitCat /\ [][NextCat]_vars

----------------------------------------------------------------------------
(* Specification of a run of the program (__main__)                        *)

\* The upstream data a run may meet, a few per category: a dataset with one
\* row, an empty one, a fetch that fails, a write that fails.
DataEnvs(sh, data) ==
    {[fetch |-> "ok", df |-> Df(sh.columns, sh.roles, <<data>>), write |-> "ok"],
     [fetch |-> "ok", df |-> Df(sh.columns, sh.roles, <<>>), write |-> "ok"],
     [fetch |-> "ok", df |-> Df(sh.columns, sh.roles, <<data>>), write |-> "raises"],
     FetchFails}

IpoShape ==
    [columns |-> <<L.GuPiaoDaiMa, L.GuPiaoJianCheng, L.ShenGouRiQi, L.ZhongQianJiaoKuanRiQi,
                   L.ShangShiRiQi>>,
     roles |-> IpoRoles]

EarningsShape ==
    [columns |-> <<L.GuPiaoDaiMa, L.GuPiaoJianCheng, L.ShouCiYuYue, L.ShiJiPiLu, L.BaoGaoQi>>,
     roles |-> <<"code", "name", "first", "actual", "report">>]

DividendShape ==
    [columns |-> <<L.ChuQuanChuXiRi, L.DaiMa, L.MingCheng, L.FenHongFangAn>>,
     roles |-> <<"date", "code", "name", "plan">>]

MacroShape ==
    [columns |-> <<L.ShiJian, L.GuoJia, L.ShiJian4, L.ZhongYaoXing, L.YuQi, L.QianZhi>>,
     roles |-> <<"time", "country", "event", "imp", "exp", "pre">>]

UnlockApiNone == [fn \in Range(UnlockFetchCandidates) |-> "missing"]

NbsPageOf(rows) == Page({2026}, <<<<NbsHeader>> \o rows>>)

Upstream(cat, today) ==
    CASE cat = "ipo" ->
            DataEnvs(IpoShape, [code |-> V.Code, name |-> V.Name, apply |-> TsCell(today),
                                pay |-> TsCell(today + 1), list |-> NaNCell])
      [] cat = "unlock" ->
            {[api |-> a, df |-> Df(UnlockMainShape.columns, UnlockMainShape.roles, d),
              write |-> w] :
                a \in {UnlockApiFirst}, d \in {<<UnlockPlainData(today)>>, <<>>}, w \in {"ok"}}
            \cup {[api |-> UnlockApiNone,
                   df |-> Df(UnlockMainShape.columns, UnlockMainShape.roles, <<>>),
                   write |-> "ok"],
                  [api |-> UnlockApiFirst,
                   df |-> Df(UnlockMainShape.columns, UnlockMainShape.roles,
                             <<UnlockPlainData(today)>>),
                   write |-> "raises"]}
      [] cat = "earnings" ->
            DataEnvs(EarningsShape, [code |-> V.Code, name |-> V.Name, first |-> NaNCell,
                                     actual |-> TsCell(today), report |-> V.Empty])
      [] cat = "dividend" ->
            DataEnvs(DividendShape, [date |-> TsCell(today + DAYS_FORWARD), code |-> V.Code,
                                     name |-> V.Name, plan |-> V.Empty])
      [] cat = "macro" ->
            DataEnvs(MacroShape, [time |-> TsCell(today), country |-> V.China,
                                  event |-> StrCell(<<"C", "P", "I">>), imp |-> V.High,
                                  exp |-> V.Empty, pre |-> StrCell(<<"2">>)])
      [] cat \in {"index", "report_tpl", "macro_tpl"} -> {NoInput("ok"), NoInput("raises")}
      [] cat = "nbs" ->
            {[fetch |-> "ok", page |-> NbsPageOf(rows), write |-> w] :
                rows \in {<<GridRow(<<"1">>, C.A, C.D5, C.Ellipsis, C.Ellipsis),
                            GridRow(<<>>, <<>>, C.T930, <<>>, <<>>)>>,
                          <<GridRow(<<"1">>, C.A, C.D5, C.D30, C.Ellipsis)>>,
                          <<GridRow(<<"1">>, C.A, C.D5, C.Ellipsis, C.Ellipsis),
                            GridRow(<<>>, <<>>, C.T2500, <<>>, <<>>)>>,
                          <<>>},
                w \in {"ok", "raises"}}
            \cup {[fetch |-> "raises", page |-> Page({}, <<>>), write |-> "ok"],
                  [fetch |-> "ok", page |-> Page({2026}, <<>>), write |-> "ok"]}

\* The file a category's write_ics names
FileOf(cat) ==
    CASE cat = "ipo" -> "01_ipo.ics"
      [] cat = "unlock" -> "02_unlock.ics"
      [] cat = "earnings" -> "03_earnings.ics"
      [] cat = "dividend" -> "04_dividend.ics"
      [] cat = "index" -> "05_index_rebalance_rules.ics"
      [] cat = "macro" -> "06_macro.ics"
      [] cat = "report_tpl" -> "07_report_templates.ics"
      [] cat = "macro_tpl" -> "08_macro_templates.ics"
      [] cat = "nbs" -> "09_nbs_release.ics"

\* What follows the call of a category in __main__
NextOf(cat) ==
    LET i == CHOOSE k \in 1..Len(Categories) : Categories[k] = cat
    IN  IF i < Len(Categories) THEN Categories[i + 1] ELSE "write_all"

Propagates_Never(cat) == FALSE

\* An exception of a call leaves the program unless the call stands in the
\* try statement, as only that of gen_nbs_release_calendar does.
Propagates(cat) == cat # "nbs"

InitRun ==
    /\ run_pc = Categories[1]
    /\ run_today \in Todays
    /\ run_seed \in HashSeeds
    /\ run_cal_all = <<>>
    /\ run_files = <<>>
    /\ run_trace = <<>>
    /\ run_cals = <<>>
    /\ run_raised = {}
    /\ PickIdle /\ CatIdle /\ IdsIdle

\* The call of a category's function in __main__ with outcome res
RunCall(cat, res) ==
    /\ run_trace' = Append(run_trace, cat)
    /\ run_cal_all' = res.cs.cal_all
    /\ run_files' = IF res.wrote THEN (FileOf(cat) :> res.cs.cal) @@ run_files
                    ELSE run_files
    /\ run_cals' = IF res.raised THEN run_cals
                   ELSE Append(run_cals, [cat |-> cat, events |-> res.cs.cal])
    /\ run_raised' = IF res.raised THEN run_raised \cup {cat} ELSE run_raised
    /\ run_pc' = IF res.raised /\ Propagates(cat) THEN "failed" ELSE NextOf(cat)
    /\ UNCHANGED <<run_today, run_seed>>
    /\ UNCHANGED <<varsPick, varsCat, varsIds>>

RunIpo ==
    /\ run_pc = "ipo"
    /\ \E env \in Upstream("ipo", run_today) :
           RunCall("ipo", gen_ipo_calendar(run_cal_all, run_today, env))

RunUnlock ==
    /\ run_pc = "unlock"
    /\ \E env \in Upstream("unlock", run_today) :
           RunCall("unlock", gen_unlock_calendar(run_cal_all, run_today, env))

RunEarnings ==
    /\ run_pc = "earnings"
    /\ \E env \in Upstream("earnings", run_today) :
           RunCall("earnings", gen_earnings_calendar(run_cal_all, run_today, env))

RunDividend ==
    /\ run_pc = "dividend"
    /\ \E env \in Upstream("dividend", run_today) :
           RunCall("dividend", gen_dividend_calendar(run_cal_all, run_today, env))

RunIndex ==
    /\ run_pc = "index"
    /\ \E env \in Upstream("index", run_today) :
           RunCall("index", gen_index_rebalance_calendar(run_cal_all, run_today, env))

RunMacro ==
    /\ run_pc = "macro"
    /\ \E env \in Upstream("macro", run_today) :
           RunCall("macro", gen_macro_calendar(run_cal_all, run_today, run_seed, env))

RunReportTemplate ==
    /\ run_pc = "report_tpl"
    /\ \E env \in Upstream("report_tpl", run_today) :
           RunCall("report_tpl",
                   gen_cn_report_deadlines_template(run_cal_all, run_today, env))

RunMacroTemplate ==
    /\ run_pc = "macro_tpl"
    /\ \E env \in Upstream("macro_tpl", run_today) :
           RunCall("macro_tpl", gen_cn_macro_template(run_cal_all, run_today, env))

RunNbs ==
    /\ run_pc = "nbs"
    /\ \E env \in Upstream("nbs", run_today) :
           RunCall("nbs", gen_nbs_release_calendar(run_cal_all, run_today, run_seed, env))

\* write_ics(cal_all, "00_all.ics"), which succeeds or raises
RunWriteAll ==
    /\ run_pc = "write_all"
    /\ \E w \in {"ok", "raises"} :
        /\ run_files' = IF w = "ok" THEN ("00_all.ics" :> run_cal_all) @@ run_files
                        ELSE run_files
        /\ run_raised' = IF w = "ok" THEN run_raised ELSE run_raised \cup {"all"}
        /\ run_pc' = IF w = "ok" THEN "done" ELSE "failed"
    /\ UNCHANGED <<run_today, run_seed, run_cal_all, run_trace, run_cals>>
    /\ UNCHANGED <<varsPick, varsCat, varsIds>>

Next ==
    \/ RunIpo
    \/ RunUnlock
    \/ RunEarnings
    \/ RunDividend
    \/ RunIndex
    \/ RunMacro
    \/ RunReportTemplate
    \/ RunMacroTemplate
    \/ RunNbs
    \/ RunWriteAll

Spec == InitRun /\ [][Next]_vars

----------------------------------------------------------------------------
(* Specification of two invocations of the program on the same day over    *)
(* the same upstream data, looked at one category at a time.  Each         *)
(* invocation is a process of its own and so has a str-hash secret of its  *)
(* own.                                                                    *)

\* The call of the category's function, as __main__ makes it
GenOf(cat, cal_all, today, hashseed, env) ==
    CASE cat = "ipo" -> gen_ipo_calendar(cal_all, today, env)
      [] cat = "unlock" -> gen_unlock_calendar(cal_all, today, env)
      [] cat = "earnings" -> gen_earnings_calendar(cal_all, today, env)
      [] cat = "dividend" -> gen_dividend_calendar(cal_all, today, env)
      [] cat = "index" -> gen_index_rebalance_calendar(cal_all, today, env)
      [] cat = "macro" -> gen_macro_calendar(cal_all, today, hashseed, env)
      [] cat = "report_tpl" -> gen_cn_report_deadlines_template(cal_all, today, env)
      [] cat = "macro_tpl" -> gen_cn_macro_template(cal_all, today, env)
      [] cat = "nbs" -> gen_nbs_release_calendar(cal_all, today, hashseed, env)

InitIds ==
    /\ id_pc = "upstream"
    /\ id_cat \in Range(Categories)
    /\ id_today \in Todays
    /\ id_env = NoInput("ok")
    /\ id_seeds = <<>>
    /\ id_uids = <<>>
    /\ PickIdle /\ CatIdle /\ RunIdle

\* The upstream data of the day
IdsUpstream ==
    /\ id_pc = "upstream"
    /\ id_env' \in Upstream(id_cat, id_today)
    /\ id_pc' = "run"
    /\ UNCHANGED <<id_cat, id_today, id_seeds, id_uids>>
    /\ UNCHANGED <<varsPick, varsCat, varsRun>>

\* One invocation: a new process, with its own str-hash secret
IdsInvoke ==
    /\ id_pc = "run"
    /\ \E seed \in HashSeeds :
        LET cal == GenOf(id_cat, <<>>, id_today, seed, id_env).cs.cal
        IN  /\ id_seeds' = Append(id_seeds, seed)
            /\ id_uids' = Append(id_uids, [i \in 1..Len(cal) |-> cal[i].uid])
    /\ id_pc' = IF Len(id_uids) = 1 THEN "done" ELSE "run"
    /\ UNCHANGED <<id_cat, id_today, id_env>>
    /\ UNCHANGED <<varsPick, varsCat, varsRun>>

NextIds == IdsUpstream \/ IdsInvoke

SpecIds == InitIds /\ [][NextIds]_vars

----------------------------------------------------------------------------
(* Properties of _pick_col (checked under SpecPick)                        *)

\* C1: for every column list and candidate list, _pick_col returns a label
\* of the dataset's own column list or None, never a candidate that is not
\* one of the columns.
C1_PickReturnsOwnColumnOrNone ==
    pk_pc = "done" => (pk_out = None \/ pk_out[1] \in Range(pk_cols))

\* C1 witness: a call returned a column that is not among the candidates
\* (a normalized match).
C1_Witness ==
    pk_pc = "done" /\ pk_out # None /\ pk_out[1] \notin Range(pk_cands)

\* C2 as stated: for a dataset whose only column is the market-value label
\* with the bracketed unit, resolving the lone short candidate returns that
\* column.
C2_ShortCandidateResolvesBracketedColumn ==
    (pk_pc = "done" /\ pk_cols = <<L.MV_YI>> /\ pk_cands = <<L.MV>>)
        => pk_out = Some(L.MV_YI)

\* The labels of the pool that differ only in whitespace, in ASCII or
\* full-width parentheses, in underscores or in hyphens, spelled out.
SameUpToDecoration ==
    {{L.MV, L.MV_SPACED}, {L.MV_YI, L.MV_YI_FULLWIDTH}, {L.SHIZHI}, {L.date}, {L.Date}}

\* C2 amended: normalized matching ignores only whitespace, parentheses
\* (ASCII and full-width), underscores and hyphens.  A single column is
\* returned exactly when some candidate differs from it in those characters
\* alone: the bracketed market-value column by its full-width spelling and
\* by the candidate list of gen_unlock_calendar (which holds it literally),
\* but not by the lone short candidate, and "Date" not by "date".
C2_NormalizedMatchIgnoresDecorationOnly ==
    (pk_pc = "done" /\ Len(pk_cols) = 1)
        => LET hit == \E i \in 1..Len(pk_cands) :
                        \E cls \in SameUpToDecoration :
                            pk_cands[i] \in cls /\ pk_cols[1] \in cls
           IN  /\ hit => pk_out = Some(pk_cols[1])
               /\ ~hit => pk_out = None

\* C2 witness: the bracketed column was resolved from its full-width
\* spelling, and by the candidate list of gen_unlock_calendar.
C2_Witness ==
    /\ pk_pc = "done"
    /\ pk_cols = <<L.MV_YI>>
    /\ pk_cands = <<L.MV, L.MV_YI_FULLWIDTH>>
    /\ pk_out = Some(L.MV_YI)

\* C10: _pick_col returns the first candidate, in candidate order, that is a
\* column verbatim; only when there is none, a column whose normalized form
\* is that of the first candidate, in candidate order, that has such a
\* column; None when there is none either.
C10_ResolverPriorityOrder ==
    pk_pc = "done" =>
        LET exact == {i \in 1..Len(pk_cands) : pk_cands[i] \in Range(pk_cols)}
            fuzzy == {i \in 1..Len(pk_cands) :
                        \E j \in 1..Len(pk_cols) :
                            \E cls \in SameUpToDecoration :
                                pk_cands[i] \in cls /\ pk_cols[j] \in cls}
        IN  IF exact # {} THEN pk_out = Some(pk_cands[Least(exact)])
            ELSE IF fuzzy # {}
                 THEN /\ pk_out # None
                      /\ pk_out[1] \in Range(pk_cols)
                      /\ \E cls \in SameUpToDecoration :
                            pk_cands[Least(fuzzy)] \in cls /\ pk_out[1] \in cls
            ELSE pk_out = None

\* C10 witness: the second candidate matched verbatim although the first
\* candidate had a normalized match in an earlier column.
C10_Witness ==
    /\ pk_pc = "done"
    /\ pk_cols = <<L.MV_YI, L.SHIZHI>>
    /\ pk_cands = <<L.MV_YI_FULLWIDTH, L.SHIZHI>>
    /\ pk_out = Some(L.SHIZHI)

----------------------------------------------------------------------------
(* Properties of the category functions (checked under SpecCat)            *)

CatDone(cat) == ct_pc = "done" /\ ct_cat = cat

\* The days of the events of the category's own calendar, in order
EventDays == [i \in 1..Len(ct_res.cs.cal) |-> ct_res.cs.cal[i].dtstart.day]

\* A normalized date that the range [today, today + DAYS_FORWARD] retains
C3_Kept(d) == d # None /\ ct_today <= d[1] /\ d[1] <= ct_today + DAYS_FORWARD

\* The cell of row r under the one column of `labels` the dataset has
CellOf(r, labels) ==
    IF \E l \in labels : l \in DOMAIN r
    THEN r[CHOOSE l \in labels : l \in DOMAIN r] ELSE NaNCell

\* The retained days of the rows, in row order; DatesOf(r) are the
\* normalized dates of row r
RECURSIVE C3_KeptDays(_, _)
C3_KeptDays(DatesOf(_), rows) ==
    IF rows = <<>> THEN <<>>
    ELSE LET kept == SelectSeq(DatesOf(Head(rows)), C3_Kept)
         IN  [i \in 1..Len(kept) |-> kept[i][1]] \o C3_KeptDays(DatesOf, Tail(rows))

C3_IpoDates(r) ==
    <<_to_dt(CellOf(r, {L.ShenGouRiQi})),
      _to_dt(CellOf(r, {L.ZhongQianJiaoKuanRiQi, L.WangShangShenGouJiaoKuanRi})),
      _to_dt(CellOf(r, {L.ShangShiRiQi, L.ShangShiRi}))>>

C3_EarningsDates(r) ==
    LET actual == _to_dt(CellOf(r, {L.ShiJiPiLu, L.ShiJiPiLuShiJian}))
        first == _to_dt(CellOf(r, {L.ShouCiYuYue, L.ShouCiYuYuePiLu, L.ShouCiYuYueShiJian}))
    IN  <<IF actual # None THEN actual ELSE first>>

C3_DividendDates(r) ==
    <<_to_dt(CellOf(r, {L.ChuQuanChuXiRi, L.ChuXiRi, L.QuanYiDengJiRi, L.RiQi}))>>

C3_UnlockDates(r) == <<_to_dt(CellOf(r, {L.JieJinRiQi, L.RiQi}))>>

C3_MacroDates(r) == <<_to_dt(CellOf(r, {L.ShiJian, L.date, L.datetime}))>>

\* The dates the index and template categories generate around the range
C3_IndexDates == <<Ymd(2026, 12, 11), Ymd(2027, 3, 12)>>

C3_ReportDates ==
    <<Ymd(2026, 4, 30), Ymd(2026, 4, 30), Ymd(2026, 8, 31), Ymd(2026, 10, 31),
      Ymd(2026, 1, 10), Ymd(2026, 4, 1), Ymd(2026, 7, 1), Ymd(2026, 8, 1),
      Ymd(2026, 10, 1),
      Ymd(2027, 4, 30), Ymd(2027, 4, 30), Ymd(2027, 8, 31), Ymd(2027, 10, 31),
      Ymd(2027, 1, 10), Ymd(2027, 4, 1), Ymd(2027, 7, 1), Ymd(2027, 8, 1),
      Ymd(2027, 10, 1)>>

C3_MacroTemplateDates ==
    <<Ymd(2026, 12, 7), Ymd(2026, 12, 10), Ymd(2026, 12, 15), Ymd(2026, 12, 20),
      Ymd(2026, 12, 31),
      Ymd(2027, 1, 7), Ymd(2027, 1, 10), Ymd(2027, 1, 15), Ymd(2027, 1, 20),
      Ymd(2027, 1, 31),
      Ymd(2027, 2, 7), Ymd(2027, 2, 10), Ymd(2027, 2, 15), Ymd(2027, 2, 20),
      Ymd(2027, 2, 28),
      Ymd(2027, 3, 7), Ymd(2027, 3, 10), Ymd(2027, 3, 15), Ymd(2027, 3, 20),
      Ymd(2027, 3, 31)>>

C3_KeptOf(days) == SelectSeq(days, LAMBDA n : C3_Kept(Some(n)))

\* C3 as stated: in every category, every date before today or after
\* today + DAYS_FORWARD is dropped, so no calendar of any category holds an
\* event outside the range.
C3_EveryCategoryDropsOutOfRange ==
    ct_pc = "done" =>
        \A i \in 1..Len(EventDays) : C3_Kept(Some(EventDays[i]))

\* C3 amended: in every category but the statistics bureau's, the filter
\* keeps a date exactly when today <= date <= today + DAYS_FORWARD, both
\* ends included, and drops absent dates: the calendar holds no event
\* outside the range; the IPO, earnings and dividend calendars hold one event
\* for each retained date of each row, in row order; the unlock and macro
\* calendars hold an event for each retained row that passes their other
\* filters, and no more events than retained rows; the index and template
\* calendars hold exactly the generated dates within the range.
C3_RangeFilterInclusiveBothEnds ==
    (ct_pc = "done" /\ ct_cat # "nbs") =>
        /\ \A i \in 1..Len(EventDays) : C3_Kept(Some(EventDays[i]))
        /\ ct_cat = "ipo" => EventDays = C3_KeptDays(C3_IpoDates, ct_env.df.rows)
        /\ ct_cat = "earnings" => EventDays = C3_KeptDays(C3_EarningsDates, ct_env.df.rows)
        /\ ct_cat = "dividend" => EventDays = C3_KeptDays(C3_DividendDates, ct_env.df.rows)
        /\ (ct_cat = "unlock" /\ \E fn \in DOMAIN ct_env.api : ct_env.api[fn] = "ok") =>
             LET rows == ct_env.df.rows
             IN  /\ Len(EventDays) <= Len(C3_KeptDays(C3_UnlockDates, rows))
                 /\ \A k \in 1..Len(rows) :
                      (/\ C3_Kept(C3_UnlockDates(rows[k])[1])
                       /\ CellOf(rows[k], {L.MV, L.MV_YI, L.SHIZHI}) = FloatCell(100))
                          => C3_UnlockDates(rows[k])[1][1] \in Range(EventDays)
        /\ (ct_cat = "macro" /\ ct_env.fetch = "ok") =>
             LET rows == ct_env.df.rows
             IN  /\ Len(EventDays) <= Len(C3_KeptDays(C3_MacroDates, rows))
                 /\ \A k \in 1..Len(rows) :
                      (/\ C3_Kept(C3_MacroDates(rows[k])[1])
                       /\ CellOf(rows[k], {L.GuoJia, L.country}) = V.China
                       /\ CellOf(rows[k], {L.ZhongYaoXing, L.importance}) = V.High)
                          => C3_MacroDates(rows[k])[1][1] \in Range(EventDays)
        /\ ct_cat = "index" => EventDays = C3_KeptOf(C3_IndexDates)
        /\ ct_cat = "report_tpl" => EventDays = C3_KeptOf(C3_ReportDates)
        /\ ct_cat = "macro_tpl" => EventDays = C3_KeptOf(C3_MacroTemplateDates)

\* C3 witness: an unlock dataset with a row dated today and a row dated
\* today + DAYS_FORWARD gave one event for each.
C3_Witness ==
    /\ CatDone("unlock")
    /\ Len(ct_env.df.rows) = 2
    /\ EventDays = <<ct_today, ct_today + DAYS_FORWARD>>

\* The market value a cell denotes, in tenths of 100 million yuan: the
\* number itself, or the number a text starts with (thousands separators
\* dropped); None for a cell that holds no number.
C4_Value(cell) ==
    CASE cell.k = "float" -> Some(cell.tenths)
      [] cell.k = "str" ->
            LET txt == Remove(cell.s, ",")
                n == FirstDigitRun(txt)
            IN  IF n # None /\ txt[1] \in DigitChars THEN Some(10 * IntOf(n[1])) ELSE None
      [] OTHER -> None

C4_AtOrAboveThreshold(r) ==
    LET v == C4_Value(CellOf(r, {L.MV, L.MV_YI, L.SHIZHI}))
    IN  v # None /\ v[1] >= 10 * UNLOCK_MV_MIN_YI

\* C4: for a dataset whose rows all lie within the date range and all carry
\* a market value, the unlock calendar holds exactly the rows whose market
\* value is at or above UNLOCK_MV_MIN_YI, in row order: of a row valued
\* 3 yi yuan and a row valued 10 yi yuan, only the second.
C4_UnlockKeepsExactlyRowsAtOrAboveThreshold ==
    (/\ CatDone("unlock")
     /\ \E fn \in DOMAIN ct_env.api : ct_env.api[fn] = "ok"
     /\ \A k \in 1..Len(ct_env.df.rows) :
            /\ C3_Kept(C3_UnlockDates(ct_env.df.rows[k])[1])
            /\ C4_Value(CellOf(ct_env.df.rows[k], {L.MV, L.MV_YI, L.SHIZHI})) # None)
        => LET kept == SelectSeq(ct_env.df.rows, C4_AtOrAboveThreshold)
           IN  /\ Len(ct_res.cs.cal) = Len(kept)
               /\ \A i \in 1..Len(kept) :
                    LET mv == strip(PyStr(CellOf(kept[i], {L.MV, L.MV_YI, L.SHIZHI})))
                        amt == IF L.JieJinShuLiang \in DOMAIN kept[i]
                               THEN "jiejinshuliang: 100;" ELSE ""
                    IN  ct_res.cs.cal[i].description
                            = Some(amt \o "jiejinshizhi: " \o Text(mv))

\* The page the statistics-bureau category read is the header followed by
\* rows, names 2026 and holds no impossible time of day
C6_Applies ==
    /\ CatDone("nbs")
    /\ ct_env.fetch = "ok" /\ ct_env.write = "ok"
    /\ ct_env.page.years = {2026}
    /\ Len(ct_env.page.tables) = 1
    /\ ct_env.page.tables[1] # <<>>
    /\ ct_env.page.tables[1][1] = NbsHeader
    /\ \A k \in 2..Len(ct_env.page.tables[1]) :
            \A c \in 1..Len(ct_env.page.tables[1][k]) :
                LET t == parse_time(ct_env.page.tables[1][k][c])
                IN  t # None => (t[1][1] \in 0..23 /\ t[1][2] \in 0..59)

\* The grid rows below the header
C6_Rows == Tail(ct_env.page.tables[1])

\* The day a cell gives: the one or two digits it starts with when a slash
\* follows them; None for a placeholder, an empty cell or any other text
C6_Day(cell) ==
    LET slashes == {p \in 1..Len(cell) : cell[p] = "/"}
        p == Least(slashes)
    IN  IF slashes # {} /\ p \in 2..3 /\ IsDigits(SubSeq(cell, 1, p - 1))
        THEN Some(IntOf(SubSeq(cell, 1, p - 1))) ELSE None

\* A date row: a full row with a content label and a day in some month
C6_DateRow(r) ==
    /\ Len(r) = 14
    /\ strip(r[2]) # <<>>
    /\ \E m \in Months : C6_Day(r[2 + m]) # None

\* C6: for every date row below the header the calendar holds exactly one
\* event for each month whose cell gives a day that the month has, on that
\* day, and none for any other month: for every day of the year, as many
\* events as there are such cells.
C6_OneEventPerParsedDayCell ==
    C6_Applies =>
        \A m \in Months : \A d \in 1..DaysInMonth(2026, m) :
            Cardinality({i \in 1..Len(ct_res.cs.cal) :
                            ct_res.cs.cal[i].dtstart.day = Ymd(2026, m, d)})
                = Cardinality({k \in 1..Len(C6_Rows) :
                                /\ C6_DateRow(C6_Rows[k])
                                /\ C6_Day(C6_Rows[k][2 + m]) = Some(d)})

\* A cell that holds nothing but whitespace
C11_Blank(cell) == \A p \in 1..Len(cell) : cell[p] \in WhitespaceChars

\* The time row of the k-th row below the header: the row right after it,
\* when that is a full row with a blank content label and a time in some
\* month cell; None when there is no such row
C11_TimeRowOf(k) ==
    IF /\ k + 1 <= Len(C6_Rows)
       /\ Len(C6_Rows[k + 1]) = 14
       /\ C11_Blank(C6_Rows[k + 1][2])
       /\ \E m \in Months : parse_time(C6_Rows[k + 1][2 + m]) # None
    THEN Some(C6_Rows[k + 1]) ELSE None

\* The time month m takes from the time row tr: its own, else that of the
\* lowest month column that holds one
C11_TimeOf(tr, m) ==
    IF parse_time(tr[2 + m]) # None THEN parse_time(tr[2 + m])[1]
    ELSE parse_time(tr[2 + Least({j \in Months : parse_time(tr[2 + j]) # None})])[1]

\* Start and end of the event of month m of date row k: the whole day when
\* the row has no time row, else the hour that begins at the month's time
C11_Span(k, m) ==
    LET n == Ymd(2026, m, C6_Day(C6_Rows[k][2 + m])[1])
        tr == C11_TimeRowOf(k)
    IN  IF tr = None THEN <<AllDay(n), AllDay(n + 1)>>
        ELSE LET t == C11_TimeOf(tr[1], m)
                 e == 60 * t[1] + t[2] + 60
             IN  <<Timed(n, t[1], t[2]), Timed(n + e \div 1440, (e % 1440) \div 60, e % 60)>>

\* The spans of date row k for the months from m on whose cell gives a day
\* that the month has
RECURSIVE C11_RowSpans(_, _)
C11_RowSpans(k, m) ==
    IF m > 12 THEN <<>>
    ELSE LET d == C6_Day(C6_Rows[k][2 + m])
         IN  (IF d # None /\ ValidYmd(2026, m, d[1]) THEN <<C11_Span(k, m)>> ELSE <<>>)
                \o C11_RowSpans(k, m + 1)

\* The spans of the date rows from the k-th row on; a time row has a blank
\* content label, so it is no date row and adds nothing of its own
RECURSIVE C11_Expected(_)
C11_Expected(k) ==
    IF k > Len(C6_Rows) THEN <<>>
    ELSE (IF C6_DateRow(C6_Rows[k]) THEN C11_RowSpans(k, 1) ELSE <<>>)
            \o C11_Expected(k + 1)

\* The spans of the events the category emitted, in order
C11_Emitted ==
    [i \in 1..Len(ct_res.cs.cal) |-> <<ct_res.cs.cal[i].dtstart, ct_res.cs.cal[i].dtend>>]

\* C11: the row right after a date row, when its content label is blank and
\* a month cell of it holds HH:MM, is that date row's time row and yields no
\* event of its own; every month of the date row with a resolved day yields
\* one event: with a time row, a one-hour event that starts at the month's
\* own time in that row, else at the time of the lowest month column that
\* holds one; without a time row, an all-day event of exactly one day.
C11_TimeRowPairing ==
    C6_Applies => C11_Emitted = C11_Expected(1)

\* The positions in the candidate list of the functions that exist and have
\* no function before them that returns a dataset
C12_Attempted ==
    {i \in 1..Len(UnlockFetchCandidates) :
        /\ ct_env.api[UnlockFetchCandidates[i]] # "missing"
        /\ \A j \in 1..(i - 1) : ct_env.api[UnlockFetchCandidates[j]] # "ok"}

\* The candidates at the positions S from position i on, in list order
RECURSIVE C12_InListOrder(_, _)
C12_InListOrder(S, i) ==
    IF i > Len(UnlockFetchCandidates) THEN <<>>
    ELSE (IF i \in S THEN <<UnlockFetchCandidates[i]>> ELSE <<>>) \o C12_InListOrder(S, i + 1)

\* The positions of the functions that return a dataset
C12_Returning ==
    {i \in 1..Len(UnlockFetchCandidates) : ct_env.api[UnlockFetchCandidates[i]] = "ok"}

\* C12: the unlock category calls its candidate fetch functions in list
\* order, skipping the missing ones and going on after one that raises, up
\* to and including the first that returns a dataset, which is the one
\* used; it calls none twice; it raises its not-found failure exactly when
\* no candidate returns a dataset, and the failure names the functions
\* called, in the order called.
C12_UnlockFetchFallback ==
    CatDone("unlock") =>
        /\ ct_res.called = C12_InListOrder(C12_Attempted, 1)
        /\ \A i, j \in 1..Len(ct_res.called) : i # j => ct_res.called[i] # ct_res.called[j]
        /\ IF C12_Returning = {}
           THEN /\ ct_res.used = None
                /\ ct_res.raised
                /\ ct_res.failure # None
                /\ ct_res.failure[1].tried = C12_InListOrder(C12_Attempted, 1)
           ELSE /\ ct_res.used = Some(UnlockFetchCandidates[Least(C12_Returning)])
                /\ ct_res.called[Len(ct_res.called)] = ct_res.used[1]
                /\ ct_res.failure = None
                /\ ct_res.raised <=> ct_env.write = "raises"

\* The first candidate is missing, the second and third raise and the last
\* is missing: the category fails and names the second and third
C12_Witness ==
    /\ CatDone("unlock")
    /\ ct_env.api[UnlockFetchCandidates[1]] = "missing"
    /\ ct_env.api[UnlockFetchCandidates[2]] = "raises"
    /\ ct_env.api[UnlockFetchCandidates[3]] = "raises"
    /\ ct_env.api[UnlockFetchCandidates[4]] = "missing"
    /\ ct_res.raised
    /\ ct_res.failure
        = Some(UnlockNotFound(<<UnlockFetchCandidates[2], UnlockFetchCandidates[3]>>))

----------------------------------------------------------------------------
(* Properties of two invocations (checked under SpecIds)                   *)

\* C5: two separate invocations of the program over the same upstream data
\* give their events the same identifiers, in every category, those of the
\* macro and statistics-bureau categories included.
C5_SameUidsAcrossInvocations ==
    id_pc = "done" => id_uids[1] = id_uids[2]

----------------------------------------------------------------------------
(* Properties of a run (checked under Spec)                                *)

\* The order __main__ calls the categories in
C8_Order ==
    <<"ipo", "unlock", "earnings", "dividend", "index", "macro", "report_tpl",
      "macro_tpl", "nbs">>

IsPrefix(s, t) == Len(s) <= Len(t) /\ SubSeq(t, 1, Len(s)) = s

\* The events of the statistics-bureau category carry its source note
IsNbsEvent(ev) == ev.description = Some(NbsDescription)

\* C7: when the call of the statistics-bureau category raised, wherever it
\* raised, the run goes on to write the combined calendar, and the combined
\* calendar written holds no event of that category.
C7_FailedNbsLeavesNoEvent ==
    "nbs" \in run_raised =>
        /\ run_pc \in {"write_all", "done", "failed"}
        /\ run_pc = "failed" => "all" \in run_raised
        /\ run_pc = "done" =>
            /\ "00_all.ics" \in DOMAIN run_files
            /\ \A i \in 1..Len(run_files["00_all.ics"]) :
                    ~IsNbsEvent(run_files["00_all.ics"][i])

\* C8: the categories are called one after another in the fixed order, and
\* once a category other than the statistics bureau's has raised, it is the
\* last one called, 00_all.ics is not written, and the file of every
\* category called before it is written, with that category's events.
C8_PrimaryFailureStopsRun ==
    /\ IsPrefix(run_trace, C8_Order)
    /\ \A c \in run_raised \ {"nbs", "all"} :
        /\ run_pc = "failed"
        /\ run_trace[Len(run_trace)] = c
        /\ "00_all.ics" \notin DOMAIN run_files
        /\ FileOf(c) \notin DOMAIN run_files
        /\ Len(run_cals) = Len(run_trace) - 1
        /\ \A k \in 1..Len(run_cals) :
            /\ run_cals[k].cat = run_trace[k]
            /\ FileOf(run_cals[k].cat) \in DOMAIN run_files
            /\ run_files[FileOf(run_cals[k].cat)] = run_cals[k].events

\* C8 witness: the earnings category raised after the IPO and unlock
\* categories had written files with events.
C8_Witness ==
    /\ "earnings" \in run_raised
    /\ run_trace = <<"ipo", "unlock", "earnings">>
    /\ Len(run_files["01_ipo.ics"]) > 0
    /\ Len(run_files["02_unlock.ics"]) > 0
    /\ Len(run_cal_all) > 0

\* The events of the categories that completed, in processing order
RECURSIVE Concatenation(_)
Concatenation(cals) ==
    IF cals = <<>> THEN <<>> ELSE Head(cals).events \o Concatenation(Tail(cals))

\* C9: at every point of a run that has not been aborted, the combined
\* calendar is the concatenation, in processing order, of the events of the
\* categories that completed, and so is the combined calendar written at
\* the end.
C9_CombinedIsConcatenationOfCompleted ==
    run_pc \notin {"idle", "failed"} =>
        /\ run_cal_all = Concatenation(run_cals)
        /\ run_pc = "done" => run_files["00_all.ics"] = Concatenation(run_cals)

====
